---------------------------- MODULE Spec2Model ----------------------------
(***************************************************************************)
(* Authorization cache & sync engine of the ESP32 RFID firmware            *)
(* (src/src/AuthSync.cpp, src/src/HashUtils.cpp, src/src/main.cpp).        *)
(*                                                                         *)
(* The AuthSync object is modelled field by field.  Its environment (WiFi, *)
(* the clock, the authority's HTTP answers, the flash file system and the  *)
(* NVS key-value store) is modelled by inputs drawn from small sets.       *)
(***************************************************************************)
EXTENDS Integers, Sequences, FiniteSets, TLC

(***************************************************************************)
(* 64-bit fingerprints.  A uint64_t is held as four 16-bit limbs,          *)
(* least significant first, so that every intermediate product stays       *)
(* inside the range of the checker's integers; arithmetic is modulo 2^64.  *)
(***************************************************************************)
LIMB == 2 ^ 16

\* 0xcbf29ce484222325, HashUtils.cpp:4
FNV_OFFSET == <<8997, 33826, 40164, 52210>>

\* low 9 bits of the prime 0x100000001b3 = 2^40 + 0x1b3, HashUtils.cpp:5
FNV_PRIME_LOW == 435

RECURSIVE XorBits(_, _, _)
\* bitwise XOR of two naturals below 2^n
XorBits(a, b, n) ==
    IF n = 0 THEN 0
    ELSE ((a + b) % 2) + 2 * XorBits(a \div 2, b \div 2, n - 1)

\* hash ^= data[i]   (the byte only touches the low limb)
XorByte(h, byte) == <<XorBits(h[1], byte, 16), h[2], h[3], h[4]>>

\* hash *= prime  (mod 2^64):  h * 0x1b3  +  (h << 40)
MulPrime(h) ==
    LET t1 == h[1] * FNV_PRIME_LOW
        t2 == h[2] * FNV_PRIME_LOW + (t1 \div LIMB)
        t3 == h[3] * FNV_PRIME_LOW + (t2 \div LIMB)
        t4 == h[4] * FNV_PRIME_LOW + (t3 \div LIMB)
        \* h << 40 : two whole limbs and eight bits
        s3 == (h[1] * 256) % LIMB
        s4 == ((h[2] * 256) % LIMB) + (h[1] \div 256)
        u3 == (t3 % LIMB) + s3
        u4 == (t4 % LIMB) + s4 + (u3 \div LIMB)
    IN  <<t1 % LIMB, t2 % LIMB, u3 % LIMB, u4 % LIMB>>

RECURSIVE fnv1a64_from(_, _, _)
fnv1a64_from(data, i, hash) ==
    IF i > Len(data) THEN hash
    ELSE fnv1a64_from(data, i + 1, MulPrime(XorByte(hash, data[i])))

\* HashUtils.cpp:3-11
fnv1a64_bytes(data) == fnv1a64_from(data, 1, FNV_OFFSET)

\* isspace() of the C locale: space, \t \n \v \f \r
IsSpace(c) == c = 32 \/ (c >= 9 /\ c <= 13)

RECURSIVE TrimLeft(_)
TrimLeft(s) == IF s # <<>> /\ IsSpace(Head(s)) THEN TrimLeft(Tail(s)) ELSE s

RECURSIVE TrimRight(_)
TrimRight(s) ==
    IF s # <<>> /\ IsSpace(s[Len(s)]) THEN TrimRight(SubSeq(s, 1, Len(s) - 1)) ELSE s

\* fault: only the leading white space is removed
Trim_LeadingOnly(s) == TrimLeft(s)

\* String::trim()
Trim(s) == TrimRight(TrimLeft(s))

\* String::toUpperCase(): toupper() on every byte
ToUpperCase(s) == [i \in 1..Len(s) |-> IF s[i] >= 97 /\ s[i] <= 122 THEN s[i] - 32 ELSE s[i]]

\* HashUtils::hashUid, HashUtils.cpp:14-19 (AuthSync::hashUid forwards to it)
hashUid(s) == fnv1a64_bytes(ToUpperCase(Trim(s)))

\* a < b on uint64_t
Less(a, b) ==
    \/ a[4] < b[4]
    \/ a[4] = b[4] /\ a[3] < b[3]
    \/ a[4] = b[4] /\ a[3] = b[3] /\ a[2] < b[2]
    \/ a[4] = b[4] /\ a[3] = b[3] /\ a[2] = b[2] /\ a[1] < b[1]


(***************************************************************************)
(* Model bounds and program constants.                                     *)
(***************************************************************************)
\* static constexpr size_t MAX_SAFE_CARDS, AuthSync.h:17
MAX_SAFE_CARDS == 200000

\* static constexpr size_t MAX_SAFE_BYTES, AuthSync.h:19
MAX_SAFE_BYTES == (MAX_SAFE_CARDS + 7) \div 8

\* backoff window after a failed probe, AuthSync.cpp:202 and :294
BACKOFF_MS == 10000

\* throttle window of the inline status probe, AuthSync.cpp:207
PROBE_THROTTLE_MS == 5000

\* unsigned long SYNC_INTERVAL, AuthSync.h:47
SYNC_INTERVAL == 60000

\* vTaskDelay(500) at the top of setup(): millis() when the engine is first used
BOOT_DELAY_MS == 500

\* uint32_t / size_t are 32 bits wide on the ESP32.  The model narrows them to
\* UINT_BITS bits (arithmetic modulo 2^UINT_BITS), which still holds
\* MAX_SAFE_CARDS, so that the wrap of maxId + 1 stays expressible.
UINT_BITS == 20

UINT_MOD == 2 ^ UINT_BITS

\* the clock advances in steps of TickMs and the model stops it at MaxNow
TickMs == 10000

MaxNow == 10500

\* leading bytes of authorized_bits_storage[25000] that the model tracks; the
\* payloads below never size the bitset beyond them, the rest stays zero (BSS)
BufBytes == 2

NoKey == "<nokey>"

SERVER_URL == "http://authority"

\* credential identifiers as byte strings: "AB", " ab ", "CD"
UID_AB == <<65, 66>>

UID_ab == <<32, 97, 98, 32>>

UID_CD == <<67, 68>>

UID_EF == <<69, 70>>

\* the identifiers scanned and listed by the authority
Uids == {UID_AB, UID_ab, UID_CD}

\* the identifiers learned in SpecLearn
LearnUids == Uids \cup {UID_EF}

ETags == {""}

VARIABLES
    wifi,               \* WiFi.status() == WL_CONNECTED
    now,                \* millis()
    phase,              \* where the firmware is: "constructed", "preloaded", "begin", "running"
    server_base,        \* AuthSync::server_base
    authorized_bits,    \* leading BufBytes bytes of authorized_bits_storage
    max_card_id,
    last_sync,
    last_server_probe,
    server_last_ok,
    prefsOpen_,
    allowHashes_,
    denyHashes_,
    last_etag,
    nvs,                \* Preferences namespace "auth": keys bitset_etag, max_id
    fs,                 \* LittleFS: files /bits.bin and /allow_deny.bin
    last                \* the call made by the last step: operation, argument, result, HTTP requests

vars == <<wifi, now, phase, server_base, authorized_bits, max_card_id, last_sync,
          last_server_probe, server_last_ok, prefsOpen_, allowHashes_, denyHashes_,
          last_etag, nvs, fs, last>>

(***************************************************************************)
(* Bitset store.                                                           *)
(***************************************************************************)
\* fault: the byte count rounded down
calcBitsetBytes_RoundDown(maxId) == ((maxId + 1) % UINT_MOD) \div 8

\* AuthSync::calcBitsetBytes, AuthSync.cpp:66-72 (size_t of UINT_BITS bits)
calcBitsetBytes(maxId) ==
    LET bits == (maxId + 1) % UINT_MOD
    IN  IF bits = 0 THEN 0
        ELSE IF bits > (UINT_MOD - 1) - 7 THEN 0
        ELSE (bits + 7) \div 8

ZeroBits == [i \in 0..(BufBytes - 1) |-> 0]

\* authorized_bits[idx] of a buffer value b
ByteOf(b, idx) == IF idx \in DOMAIN b THEN b[idx] ELSE 0

\* bit number k of a byte
BitOf(byte, k) == (byte \div (2 ^ k)) % 2

\* AuthSync::isBitSet, AuthSync.cpp:95-101, on buffer b with bound maxId
isBitSetIn(b, maxId, id) ==
    IF id > maxId THEN FALSE
    ELSE BitOf(ByteOf(b, id \div 8), id % 8) # 0

isBitSet(id) == isBitSetIn(authorized_bits, max_card_id, id)

\* byte with bit k set / cleared
WithBit(byte, k) == IF BitOf(byte, k) = 1 THEN byte ELSE byte + 2 ^ k

WithoutBit(byte, k) == IF BitOf(byte, k) = 1 THEN byte - 2 ^ k ELSE byte

\* fault: setBit without its bounds check (AuthSync.cpp:106 left out)
setBit_Unchecked(b, maxId, id) ==
    IF (id \div 8) \in DOMAIN b
    THEN [b EXCEPT ![id \div 8] = WithBit(b[id \div 8], id % 8)]
    ELSE b

\* AuthSync::setBit, AuthSync.cpp:104-110, on buffer b with bound maxId
setBit(b, maxId, id) ==
    IF id > maxId THEN b
    ELSE IF (id \div 8) \in DOMAIN b
         THEN [b EXCEPT ![id \div 8] = WithBit(b[id \div 8], id % 8)]
         ELSE b

\* AuthSync::clearBit, AuthSync.cpp:113-119
clearBit(b, maxId, id) ==
    IF id > maxId THEN b
    ELSE IF (id \div 8) \in DOMAIN b
         THEN [b EXCEPT ![id \div 8] = WithoutBit(b[id \div 8], id % 8)]
         ELSE b

\* getCardCount() and getMemoryUsed(), AuthSync.h:36-37
getCardCount(maxId) == (maxId + 1) % UINT_MOD

getMemoryUsed(maxId) == calcBitsetBytes(maxId)

\* std::fill_n(authorized_bits, bytes, 0), AuthSync.cpp:376
FillZero(b, bytes) == [i \in DOMAIN b |-> IF i < bytes THEN 0 ELSE b[i]]

\* AuthSync::TEST_setMaxCardId, AuthSync.cpp:625-648: <<authorized_bits, max_card_id>> after
TEST_setMaxCardId(b, maxCardId) ==
    LET capped == IF maxCardId > MAX_SAFE_CARDS THEN MAX_SAFE_CARDS ELSE maxCardId
        nbytes == calcBitsetBytes(capped)
    IN  IF nbytes = 0 THEN <<b, capped>>
        ELSE <<FillZero(b, IF nbytes > MAX_SAFE_BYTES THEN MAX_SAFE_BYTES ELSE nbytes), capped>>

RECURSIVE DecodeHexFrom(_, _, _, _)
\* the decode loop of AuthSync.cpp:380-384; hex is a sequence of nibbles.
\* writeByteAt (AuthSync.cpp:75-82) bounds every write by limitBytes =
\* calcBitsetBytes(max_card_id) and the loop stops at the first refused write.
DecodeHexFrom(b, hex, i, limitBytes) ==
    IF ~(i + 1 < Len(hex)) THEN b
    ELSE LET idx == i \div 2
             v == (16 * hex[i + 1] + hex[i + 2]) % 256
         IN  IF limitBytes = 0 \/ idx >= limitBytes THEN b
             ELSE DecodeHexFrom([b EXCEPT ![idx] = v], hex, i + 2, limitBytes)

(***************************************************************************)
(* Hash cache: sorted vectors of fingerprints.                             *)
(***************************************************************************)
RECURSIVE LowerBoundFrom(_, _, _, _)
\* std::lower_bound: halving search for the first element not less than val
LowerBoundFrom(vec, val, first, count) ==
    IF count = 0 THEN first
    ELSE LET step == count \div 2
             it == first + step
         IN  IF Less(vec[it], val)
             THEN LowerBoundFrom(vec, val, it + 1, count - step - 1)
             ELSE LowerBoundFrom(vec, val, first, step)

lower_bound(vec, val) == LowerBoundFrom(vec, val, 1, Len(vec))

\* std::binary_search
binary_search(vec, val) ==
    LET it == lower_bound(vec, val)
    IN  it <= Len(vec) /\ ~Less(val, vec[it])

VecInsert(vec, it, val) == SubSeq(vec, 1, it - 1) \o <<val>> \o SubSeq(vec, it, Len(vec))

VecErase(vec, it) == SubSeq(vec, 1, it - 1) \o SubSeq(vec, it + 1, Len(vec))

\* the insert_sorted lambda, AuthSync.cpp:478-481
insert_sorted(vec, val) ==
    LET it == lower_bound(vec, val)
    IN  IF it = Len(vec) + 1 \/ vec[it] # val THEN VecInsert(vec, it, val) ELSE vec

\* fault: an erase that never finds the value
erase_if_present_Never(vec, val) == vec

\* "remove from the other list if present", AuthSync.cpp:485-486 and :489-490
erase_if_present(vec, val) ==
    LET it == lower_bound(vec, val)
    IN  IF it # Len(vec) + 1 /\ vec[it] = val THEN VecErase(vec, it) ELSE vec

RECURSIVE SortFrom(_, _)
SortFrom(s, acc) ==
    IF s = <<>> THEN acc
    ELSE LET v == Head(s)
             k == Cardinality({j \in 1..Len(acc) : ~Less(v, acc[j])})
         IN  SortFrom(Tail(s), VecInsert(acc, k + 1, v))

\* std::sort(v.begin(), v.end())
Sort(s) == SortFrom(s, <<>>)

RECURSIVE Unique(_)
\* v.erase(std::unique(v.begin(), v.end()), v.end())
Unique(s) ==
    IF Len(s) < 2 THEN s
    ELSE IF s[1] = s[2] THEN Unique(Tail(s))
    ELSE <<s[1]>> \o Unique(Tail(s))

\* AuthSync::hashUid (AuthSync.cpp:42-44) on the identifiers of the model,
\* computed once
UidHash == [u \in LearnUids |-> hashUid(u)]

RECURSIVE HashAll(_)
\* the loadArray lambda, AuthSync.cpp:404-411
HashAll(uids) == IF uids = <<>> THEN <<>> ELSE <<UidHash[Head(uids)]>> \o HashAll(Tail(uids))

Range(s) == {s[i] : i \in DOMAIN s}

IsSorted(s) == \A i \in 1..(Len(s) - 1) : ~Less(s[i + 1], s[i])

IsStrictlySorted(s) == \A i \in 1..(Len(s) - 1) : Less(s[i], s[i + 1])

(***************************************************************************)
(* Inputs: what the authority, the flash file system and NVS may answer.   *)
(***************************************************************************)
\* HTTP status of GET /api/status; negative codes are HTTPClient's transport errors
StatusCodes == {200, 503}

\* fault: a field that is not false reads as true, whatever the default
JsonBoolOr_Truthy(v, dflt) == v # "false"

\* a JSON field that is true, false or absent; `doc[key] | dflt`
JsonBoolOr(v, dflt) == IF v = "true" THEN TRUE ELSE IF v = "false" THEN FALSE ELSE dflt

\* answers to GET /api/cards/<uid>
CardResponses ==
    {[code |-> c, parse |-> FALSE, exists |-> "absent", authorized |-> "absent"] : c \in {404, 200}}
    \cup {[code |-> 200, parse |-> TRUE, exists |-> e, authorized |-> "true"] : e \in {"false", "absent"}}
    \cup {[code |-> 200, parse |-> TRUE, exists |-> "true", authorized |-> a] :
            a \in {"true", "false", "absent"}}

NoCardResponse == [code |-> 0, parse |-> FALSE, exists |-> "absent", authorized |-> "absent"]

\* bits as the nibbles of the hex string.  "08": id 3 set; "0802": ids 3 and 9 set
HEX_08 == <<0, 8>>

HEX_0802 == <<0, 8, 0, 2>>

\* a sync body: max_id, bits and the four optional identifier arrays
\* (AuthSync.cpp:358-359 and :398-417)
Body(maxId, hex, hasAllow, allow, hasAllowUids, allowUids, hasDeny, deny, hasDenyUids, denyUids) ==
    [max_id |-> maxId, bits |-> hex,
     hasAllow |-> hasAllow, allow |-> allow,
     hasAllowUids |-> hasAllowUids, allow_uids |-> allowUids,
     hasDeny |-> hasDeny, deny |-> deny,
     hasDenyUids |-> hasDenyUids, deny_uids |-> denyUids]

SyncBodies ==
    { Body(9, HEX_0802, FALSE, <<>>, FALSE, <<>>, FALSE, <<>>, FALSE, <<>>),
      Body(9, HEX_0802, TRUE, <<UID_AB>>, FALSE, <<>>, TRUE, <<UID_CD>>, FALSE, <<>>),
      Body(9, HEX_0802, TRUE, <<UID_CD, UID_ab, UID_AB>>, FALSE, <<>>, FALSE, <<>>, FALSE, <<>>),
      Body(9, HEX_0802, TRUE, <<UID_ab>>, FALSE, <<>>, TRUE, <<UID_AB>>, FALSE, <<>>),
      Body(9, HEX_0802, FALSE, <<>>, TRUE, <<UID_CD>>, FALSE, <<>>, TRUE, <<UID_AB>>),
      Body(9, HEX_0802, TRUE, <<>>, FALSE, <<>>, TRUE, <<>>, FALSE, <<>>),
      Body(MAX_SAFE_CARDS, HEX_08, TRUE, <<UID_AB>>, FALSE, <<>>, FALSE, <<>>, FALSE, <<>>),
      Body(UINT_MOD - 1, HEX_08, FALSE, <<>>, FALSE, <<>>, FALSE, <<>>, FALSE, <<>>) }

EmptyBody == Body(0, <<>>, FALSE, <<>>, FALSE, <<>>, FALSE, <<>>, FALSE, <<>>)

\* answers to GET /api/sync: status, ETag response header, body (parse = FALSE: not JSON)
SyncResponses ==
    {[code |-> c, etag |-> "", parse |-> FALSE, body |-> EmptyBody] : c \in {304, 500, -1}}
    \cup {[code |-> 200, etag |-> "", parse |-> FALSE, body |-> EmptyBody]}
    \cup {[code |-> 200, etag |-> e, parse |-> TRUE, body |-> b] : e \in ETags, b \in SyncBodies}

NoSyncResponse == [code |-> 0, etag |-> "", parse |-> FALSE, body |-> EmptyBody]

\* what can go wrong in one LittleFS save: the mount (or, to the same effect, the
\* open of the temp file) fails, or the final rename fails
FsFaults == {"none", "mount", "rename"}

(***************************************************************************)
(* Persistence layer.                                                      *)
(***************************************************************************)
AbsentFile == [exists |-> FALSE, data |-> <<>>]

\* fault: the two counts are written in the other order
AllowDenyFile_CountsSwapped(allow, deny) ==
    [exists |-> TRUE,
     data |-> [size |-> 8 + 8 * (Len(allow) + Len(deny)),
               an |-> Len(deny), dn |-> Len(allow), hashes |-> allow \o deny]]

\* /allow_deny.bin as saveAllowDenyToFS writes it, AuthSync.cpp:503-508: u32
\* allow_count, u32 deny_count, then the fingerprints, 8 bytes each.  size is
\* the length of the file in bytes, hashes the whole 8-byte words after the header.
AllowDenyFile(allow, deny) ==
    [exists |-> TRUE,
     data |-> [size |-> 8 + 8 * (Len(allow) + Len(deny)),
               an |-> Len(allow), dn |-> Len(deny), hashes |-> allow \o deny]]

\* f.size()
AllowDenyFileSize(f) == f.data.size

\* std::vector<uint64_t>::max_size() with a size_t of UINT_BITS bits:
\* PTRDIFF_MAX / sizeof(uint64_t)
VECTOR_MAX_SIZE == (UINT_MOD \div 2 - 1) \div 8

\* how AuthSync::loadAllowDenyFromFS ends, AuthSync.cpp:518-541.  expected is a
\* size_t (:529): the sum wraps.  assign(n, 0) with n > max_size() throws
\* std::length_error (:531-532), which ends the program.
loadAllowDenyOutcome(fsv, mounted) ==
    LET f == fsv.allow_deny
        expected == (8 + 8 * f.data.an + 8 * f.data.dn) % UINT_MOD
    IN  IF ~mounted THEN "no_fs"
        ELSE IF ~f.exists THEN "absent"
        ELSE IF AllowDenyFileSize(f) < 8 THEN "short_header"
        ELSE IF AllowDenyFileSize(f) < expected THEN "truncated"
        ELSE IF f.data.an > VECTOR_MAX_SIZE \/ f.data.dn > VECTOR_MAX_SIZE THEN "abort"
        ELSE "loaded"

\* AuthSync::saveAllowDenyToFS, AuthSync.cpp:496-516: the file system after the call
saveAllowDenyToFS(fsv, allow, deny, fault) ==
    IF fault = "mount" THEN fsv
    ELSE IF fault = "open" THEN fsv
    ELSE IF fault = "rename"
         THEN [fsv EXCEPT !.allow_deny = AbsentFile]     \* remove(final) ran, rename failed
         ELSE [fsv EXCEPT !.allow_deny = AllowDenyFile(allow, deny)]

\* AuthSync::saveETagToNVS, AuthSync.cpp:544-556: <<nvs, fs>> after the call
saveETagToNVS(nvsv, fsv, open, etag, allow, deny, fault) ==
    IF ~open THEN <<nvsv, fsv>>
    ELSE << [nvsv EXCEPT !.bitset_etag = IF etag # "" THEN etag ELSE NoKey],
            saveAllowDenyToFS(fsv, allow, deny, fault) >>

\* AuthSync::loadAllowDenyFromFS, AuthSync.cpp:518-541: <<allow, deny>> after the
\* call (on "abort" there is no after: the lists are given as they were)
loadAllowDenyFromFS(fsv, allow, deny, mounted) ==
    LET f == fsv.allow_deny
    IN  IF loadAllowDenyOutcome(fsv, mounted) # "loaded" THEN <<allow, deny>>
        ELSE << Sort(SubSeq(f.data.hashes, 1, f.data.an)),
                Sort(SubSeq(f.data.hashes, f.data.an + 1, f.data.an + f.data.dn)) >>

\* AuthSync::loadETagFromNVS, AuthSync.cpp:558-568: <<last_etag, allow, deny>> after the call
loadETagFromNVS(nvsv, fsv, open, etag, allow, deny, mounted) ==
    IF ~open THEN <<etag, allow, deny>>
    ELSE LET ad == loadAllowDenyFromFS(fsv, allow, deny, mounted)
         IN  << IF nvsv.bitset_etag # NoKey THEN nvsv.bitset_etag ELSE "", ad[1], ad[2] >>

\* AuthSync::saveBitsetToFS, AuthSync.cpp:570-595: <<nvs, fs>> after the call
saveBitsetToFS(nvsv, fsv, open, bits, maxId, bytes, fault) ==
    IF bytes = 0 THEN <<nvsv, fsv>>
    ELSE IF fault = "open" THEN <<nvsv, fsv>>
    ELSE IF fault = "rename" THEN <<nvsv, [fsv EXCEPT !.bits = AbsentFile]>>
    ELSE << IF open THEN [nvsv EXCEPT !.max_id = maxId] ELSE nvsv,
            [fsv EXCEPT !.bits = [exists |-> TRUE,
                                  data |-> [i \in 1..bytes |-> ByteOf(bits, i - 1)]]] >>

\* AuthSync::loadBitsetFromFS, AuthSync.cpp:597-621: <<authorized_bits, max_card_id>> after
loadBitsetFromFS(nvsv, fsv, open, bits, maxId) ==
    LET f == fsv.bits
        bytes == Len(f.data)
        fromLen == bytes * 8 - 1
    IN  IF ~f.exists THEN <<bits, maxId>>
        ELSE IF bytes = 0 \/ bytes > MAX_SAFE_BYTES THEN <<bits, maxId>>
        ELSE << [i \in DOMAIN bits |-> IF i < bytes THEN f.data[i + 1] ELSE bits[i]],
                IF open /\ nvsv.max_id # -1 THEN nvsv.max_id ELSE fromLen >>

(***************************************************************************)
(* Sync engine and decision engine.                                        *)
(***************************************************************************)
\* millis() - since (unsigned; no wrap below MaxNow, where since <= now)
Elapsed(since) == now - since

\* the backoff test of AuthSync.cpp:202 and :294
BackoffActive ==
    ~server_last_ok /\ last_server_probe # 0 /\ Elapsed(last_server_probe) < BACKOFF_MS

Online == wifi /\ server_base # ""

\* fault: the lookup without its backoff test (AuthSync.cpp:202-205 left out)
getCardAuthFromServer_NoBackoff(sc, resp) ==
    LET quiet == [ret |-> FALSE, authorized |-> FALSE, reqs |-> <<>>,
                  last_server_probe |-> last_server_probe, server_last_ok |-> server_last_ok]
        probeDue == Elapsed(last_server_probe) > PROBE_THROTTLE_MS \/ last_server_probe = 0
        probed == IF probeDue
                  THEN [quiet EXCEPT !.reqs = <<"status">>, !.last_server_probe = now,
                                     !.server_last_ok = (sc = 200)]
                  ELSE quiet
        asked == [probed EXCEPT !.reqs = probed.reqs \o <<"card">>]
    IN  IF ~Online THEN quiet
        ELSE IF ~probed.server_last_ok THEN probed
        ELSE IF resp.code # 200 THEN asked
        ELSE IF ~resp.parse THEN asked
        ELSE IF ~JsonBoolOr(resp.exists, FALSE) THEN asked
        ELSE [asked EXCEPT !.ret = TRUE, !.authorized = JsonBoolOr(resp.authorized, FALSE)]

\* fault: the lookup without its test of "exists" (AuthSync.cpp:240-241 left out)
getCardAuthFromServer_NoExists(sc, resp) ==
    LET quiet == [ret |-> FALSE, authorized |-> FALSE, reqs |-> <<>>,
                  last_server_probe |-> last_server_probe, server_last_ok |-> server_last_ok]
        probeDue == Elapsed(last_server_probe) > PROBE_THROTTLE_MS \/ last_server_probe = 0
        probed == IF probeDue
                  THEN [quiet EXCEPT !.reqs = <<"status">>, !.last_server_probe = now,
                                     !.server_last_ok = (sc = 200)]
                  ELSE quiet
        asked == [probed EXCEPT !.reqs = probed.reqs \o <<"card">>]
    IN  IF ~Online THEN quiet
        ELSE IF BackoffActive THEN quiet
        ELSE IF ~probed.server_last_ok THEN probed
        ELSE IF resp.code # 200 THEN asked
        ELSE IF ~resp.parse THEN asked
        ELSE [asked EXCEPT !.ret = TRUE, !.authorized = (resp.authorized = "true")]

\* AuthSync::getCardAuthFromServer, AuthSync.cpp:195-245.
\* sc: status of the status probe, resp: answer to the card lookup.
getCardAuthFromServer(sc, resp) ==
    LET quiet == [ret |-> FALSE, authorized |-> FALSE, reqs |-> <<>>,
                  last_server_probe |-> last_server_probe, server_last_ok |-> server_last_ok]
        probeDue == Elapsed(last_server_probe) > PROBE_THROTTLE_MS \/ last_server_probe = 0
        probed == IF probeDue
                  THEN [quiet EXCEPT !.reqs = <<"status">>, !.last_server_probe = now,
                                     !.server_last_ok = (sc = 200)]
                  ELSE quiet
        asked == [probed EXCEPT !.reqs = probed.reqs \o <<"card">>]
    IN  IF ~Online THEN quiet
        ELSE IF BackoffActive THEN quiet
        ELSE IF ~probed.server_last_ok THEN probed
        ELSE IF resp.code # 200 THEN asked
        ELSE IF ~resp.parse THEN asked
        ELSE IF ~JsonBoolOr(resp.exists, FALSE) THEN asked
        ELSE [asked EXCEPT !.ret = TRUE, !.authorized = JsonBoolOr(resp.authorized, FALSE)]

\* fault: the learn with its two branches exchanged
addKnownAuth_Swapped(allow, deny, uid, allowed) ==
    LET h == UidHash[uid]
    IN  IF allowed
        THEN <<erase_if_present(allow, h), insert_sorted(deny, h)>>
        ELSE <<insert_sorted(allow, h), erase_if_present(deny, h)>>

\* AuthSync::addKnownAuth, AuthSync.cpp:473-492 (the vectors; the save follows)
addKnownAuth(allow, deny, uid, allowed) ==
    LET h == UidHash[uid]
    IN  IF allowed
        THEN <<insert_sorted(allow, h), erase_if_present(deny, h)>>
        ELSE <<erase_if_present(allow, h), insert_sorted(deny, h)>>

\* fault: an unknown credential is let in while the authority is out of reach
isAuthorized_FailOpen(uid, sc, resp, fault) ==
    LET h == UidHash[uid]
        same == [ret |-> FALSE, reqs |-> <<>>, card |-> NoCardResponse,
                 last_server_probe |-> last_server_probe, server_last_ok |-> server_last_ok,
                 allow |-> allowHashes_, deny |-> denyHashes_, nvs |-> nvs, fs |-> fs]
        g == getCardAuthFromServer(sc, resp)
        asked == [same EXCEPT !.reqs = g.reqs,
                              !.card = IF "card" \in Range(g.reqs) THEN resp ELSE NoCardResponse,
                              !.last_server_probe = g.last_server_probe,
                              !.server_last_ok = g.server_last_ok]
        learned == addKnownAuth(allowHashes_, denyHashes_, uid, g.authorized)
        saved == saveETagToNVS(nvs, fs, prefsOpen_, last_etag, learned[1], learned[2], fault)
        lookup == IF ~g.ret THEN asked
                  ELSE [asked EXCEPT !.ret = g.authorized, !.allow = learned[1],
                                     !.deny = learned[2], !.nvs = saved[1], !.fs = saved[2]]
    IN  IF binary_search(denyHashes_, h) THEN same
        ELSE IF binary_search(allowHashes_, h) THEN [same EXCEPT !.ret = TRUE]
        ELSE IF ~Online THEN [same EXCEPT !.ret = TRUE]
        ELSE IF ~g.ret THEN [asked EXCEPT !.ret = TRUE]
        ELSE lookup

\* fault: the deny cache is consulted only while offline
isAuthorized_DenyOffline(uid, sc, resp, fault) ==
    LET h == UidHash[uid]
        same == [ret |-> FALSE, reqs |-> <<>>, card |-> NoCardResponse,
                 last_server_probe |-> last_server_probe, server_last_ok |-> server_last_ok,
                 allow |-> allowHashes_, deny |-> denyHashes_, nvs |-> nvs, fs |-> fs]
        g == getCardAuthFromServer(sc, resp)
        asked == [same EXCEPT !.reqs = g.reqs,
                              !.card = IF "card" \in Range(g.reqs) THEN resp ELSE NoCardResponse,
                              !.last_server_probe = g.last_server_probe,
                              !.server_last_ok = g.server_last_ok]
        learned == addKnownAuth(allowHashes_, denyHashes_, uid, g.authorized)
        saved == saveETagToNVS(nvs, fs, prefsOpen_, last_etag, learned[1], learned[2], fault)
        lookup == IF ~g.ret THEN asked
                  ELSE [asked EXCEPT !.ret = g.authorized, !.allow = learned[1],
                                     !.deny = learned[2], !.nvs = saved[1], !.fs = saved[2]]
    IN  IF ~Online /\ binary_search(denyHashes_, h) THEN same
        ELSE IF binary_search(allowHashes_, h) THEN [same EXCEPT !.ret = TRUE]
        ELSE IF ~Online THEN same
        ELSE lookup

\* fault: a cached allow is asked again while online
isAuthorized_Revalidate(uid, sc, resp, fault) ==
    LET h == UidHash[uid]
        same == [ret |-> FALSE, reqs |-> <<>>, card |-> NoCardResponse,
                 last_server_probe |-> last_server_probe, server_last_ok |-> server_last_ok,
                 allow |-> allowHashes_, deny |-> denyHashes_, nvs |-> nvs, fs |-> fs]
        g == getCardAuthFromServer(sc, resp)
        asked == [same EXCEPT !.reqs = g.reqs,
                              !.card = IF "card" \in Range(g.reqs) THEN resp ELSE NoCardResponse,
                              !.last_server_probe = g.last_server_probe,
                              !.server_last_ok = g.server_last_ok]
        learned == addKnownAuth(allowHashes_, denyHashes_, uid, g.authorized)
        saved == saveETagToNVS(nvs, fs, prefsOpen_, last_etag, learned[1], learned[2], fault)
        lookup == IF ~g.ret THEN asked
                  ELSE [asked EXCEPT !.ret = g.authorized, !.allow = learned[1],
                                     !.deny = learned[2], !.nvs = saved[1], !.fs = saved[2]]
    IN  IF binary_search(denyHashes_, h) THEN same
        ELSE IF binary_search(allowHashes_, h) /\ ~Online THEN [same EXCEPT !.ret = TRUE]
        ELSE IF ~Online THEN same
        ELSE lookup

\* fault: the allow cache is searched before the deny cache
isAuthorized_AllowFirst(uid, sc, resp, fault) ==
    LET h == UidHash[uid]
        same == [ret |-> FALSE, reqs |-> <<>>, card |-> NoCardResponse,
                 last_server_probe |-> last_server_probe, server_last_ok |-> server_last_ok,
                 allow |-> allowHashes_, deny |-> denyHashes_, nvs |-> nvs, fs |-> fs]
        g == getCardAuthFromServer(sc, resp)
        asked == [same EXCEPT !.reqs = g.reqs,
                              !.card = IF "card" \in Range(g.reqs) THEN resp ELSE NoCardResponse,
                              !.last_server_probe = g.last_server_probe,
                              !.server_last_ok = g.server_last_ok]
        learned == addKnownAuth(allowHashes_, denyHashes_, uid, g.authorized)
        saved == saveETagToNVS(nvs, fs, prefsOpen_, last_etag, learned[1], learned[2], fault)
        lookup == IF ~g.ret THEN asked
                  ELSE [asked EXCEPT !.ret = g.authorized, !.allow = learned[1],
                                     !.deny = learned[2], !.nvs = saved[1], !.fs = saved[2]]
    IN  IF binary_search(allowHashes_, h) THEN [same EXCEPT !.ret = TRUE]
        ELSE IF binary_search(denyHashes_, h) THEN same
        ELSE IF ~Online THEN same
        ELSE lookup

\* AuthSync::isAuthorized, AuthSync.cpp:160-193
isAuthorized(uid, sc, resp, fault) ==
    LET h == UidHash[uid]
        same == [ret |-> FALSE, reqs |-> <<>>, card |-> NoCardResponse,
                 last_server_probe |-> last_server_probe, server_last_ok |-> server_last_ok,
                 allow |-> allowHashes_, deny |-> denyHashes_, nvs |-> nvs, fs |-> fs]
        g == getCardAuthFromServer(sc, resp)
        asked == [same EXCEPT !.reqs = g.reqs,
                              !.card = IF "card" \in Range(g.reqs) THEN resp ELSE NoCardResponse,
                              !.last_server_probe = g.last_server_probe,
                              !.server_last_ok = g.server_last_ok]
        learned == addKnownAuth(allowHashes_, denyHashes_, uid, g.authorized)
        saved == saveETagToNVS(nvs, fs, prefsOpen_, last_etag, learned[1], learned[2], fault)
    IN  IF binary_search(denyHashes_, h) THEN same
        ELSE IF binary_search(allowHashes_, h) THEN [same EXCEPT !.ret = TRUE]
        ELSE IF ~Online THEN same
        ELSE IF ~g.ret THEN asked
        ELSE [asked EXCEPT !.ret = g.authorized, !.allow = learned[1], !.deny = learned[2],
                           !.nvs = saved[1], !.fs = saved[2]]

\* faults of syncFromServer, by name: "304 drops the tag" forgets the version
\* tag on a 304
syncFromServerWith(sc, resp, faultBits, faultHashes, variant) ==
    LET same == [ret |-> FALSE, reqs |-> <<>>, sync |-> NoSyncResponse,
                 authorized_bits |-> authorized_bits, max_card_id |-> max_card_id,
                 last_sync |-> last_sync, last_server_probe |-> last_server_probe,
                 server_last_ok |-> server_last_ok, allow |-> allowHashes_,
                 deny |-> denyHashes_, last_etag |-> last_etag, nvs |-> nvs, fs |-> fs]
        first == last_server_probe = 0
        probed == IF first
                  THEN [same EXCEPT !.reqs = <<"status">>, !.last_server_probe = now,
                                    !.server_last_ok = (sc = 200)]
                  ELSE same
        asked == [probed EXCEPT !.reqs = probed.reqs \o <<"sync">>, !.sync = resp]
        b == resp.body
        new_max == b.max_id
        \* AuthSync.cpp:361-366: the ETag is taken before the size is validated
        tagged == IF resp.etag # ""
                  THEN [asked EXCEPT !.last_etag = resp.etag,
                                     !.nvs = IF prefsOpen_
                                             THEN [nvs EXCEPT !.bitset_etag = resp.etag]
                                             ELSE nvs]
                  ELSE asked
        bytes == calcBitsetBytes(new_max)
        \* AuthSync.cpp:376-384: writeByteAt still sees the old max_card_id
        decoded == DecodeHexFrom(FillZero(authorized_bits, bytes), b.bits, 0,
                                 calcBitsetBytes(max_card_id))
        savedBits == IF faultBits = "mount" THEN <<tagged.nvs, tagged.fs>>
                     ELSE saveBitsetToFS(tagged.nvs, tagged.fs, prefsOpen_, decoded, new_max,
                                         bytes, faultBits)
        committed == [tagged EXCEPT !.ret = TRUE, !.authorized_bits = decoded,
                                    !.max_card_id = new_max, !.last_sync = now,
                                    !.nvs = savedBits[1], !.fs = savedBits[2]]
        hasArrays == b.hasAllow \/ b.hasAllowUids \/ b.hasDeny \/ b.hasDenyUids
        allowNew == Unique(Sort(HashAll((IF b.hasAllow THEN b.allow ELSE <<>>)
                                        \o (IF b.hasAllowUids THEN b.allow_uids ELSE <<>>))))
        denyNew == Unique(Sort(HashAll((IF b.hasDeny THEN b.deny ELSE <<>>)
                                       \o (IF b.hasDenyUids THEN b.deny_uids ELSE <<>>))))
        savedHashes == saveETagToNVS(committed.nvs, committed.fs, prefsOpen_,
                                     committed.last_etag, allowNew, denyNew, faultHashes)
    IN  IF ~Online THEN same
        ELSE IF BackoffActive THEN same
        ELSE IF ~probed.server_last_ok THEN probed
        ELSE IF resp.code = 304
             THEN IF variant = "304 drops the tag"
                  THEN [asked EXCEPT !.ret = TRUE, !.last_sync = now, !.last_etag = "",
                                     !.nvs = IF prefsOpen_
                                             THEN [nvs EXCEPT !.bitset_etag = NoKey]
                                             ELSE nvs]
                  ELSE [asked EXCEPT !.ret = TRUE, !.last_sync = now]
        ELSE IF resp.code # 200 THEN asked
        ELSE IF ~resp.parse THEN asked
        ELSE IF bytes = 0 \/ bytes > MAX_SAFE_BYTES THEN [tagged EXCEPT !.max_card_id = 0]
        ELSE IF hasArrays /\ (variant = "empty arrays replace"
                               \/ allowNew # <<>> \/ denyNew # <<>>)
             THEN [committed EXCEPT !.allow = allowNew, !.deny = denyNew,
                                    !.nvs = savedHashes[1], !.fs = savedHashes[2]]
             ELSE committed

\* fault: the swap is not guarded by the emptiness test of AuthSync.cpp:424
syncFromServer_EmptyArraysReplace(sc, resp, faultBits, faultHashes) ==
    syncFromServerWith(sc, resp, faultBits, faultHashes, "empty arrays replace")

syncFromServer_304DropsTag(sc, resp, faultBits, faultHashes) ==
    syncFromServerWith(sc, resp, faultBits, faultHashes, "304 drops the tag")

\* AuthSync::syncFromServer, AuthSync.cpp:290-436.
\* sc: status of the first-time probe, resp: answer to GET /api/sync,
\* faultBits / faultHashes: what goes wrong in the two snapshot saves.
syncFromServer(sc, resp, faultBits, faultHashes) ==
    LET same == [ret |-> FALSE, reqs |-> <<>>, sync |-> NoSyncResponse,
                 authorized_bits |-> authorized_bits, max_card_id |-> max_card_id,
                 last_sync |-> last_sync, last_server_probe |-> last_server_probe,
                 server_last_ok |-> server_last_ok, allow |-> allowHashes_,
                 deny |-> denyHashes_, last_etag |-> last_etag, nvs |-> nvs, fs |-> fs]
        first == last_server_probe = 0
        probed == IF first
                  THEN [same EXCEPT !.reqs = <<"status">>, !.last_server_probe = now,
                                    !.server_last_ok = (sc = 200)]
                  ELSE same
        asked == [probed EXCEPT !.reqs = probed.reqs \o <<"sync">>, !.sync = resp]
        b == resp.body
        new_max == b.max_id
        \* AuthSync.cpp:361-366: the ETag is taken before the size is validated
        tagged == IF resp.etag # ""
                  THEN [asked EXCEPT !.last_etag = resp.etag,
                                     !.nvs = IF prefsOpen_
                                             THEN [nvs EXCEPT !.bitset_etag = resp.etag]
                                             ELSE nvs]
                  ELSE asked
        bytes == calcBitsetBytes(new_max)
        \* AuthSync.cpp:376-384: writeByteAt still sees the old max_card_id
        decoded == DecodeHexFrom(FillZero(authorized_bits, bytes), b.bits, 0,
                                 calcBitsetBytes(max_card_id))
        savedBits == IF faultBits = "mount" THEN <<tagged.nvs, tagged.fs>>
                     ELSE saveBitsetToFS(tagged.nvs, tagged.fs, prefsOpen_, decoded, new_max,
                                         bytes, faultBits)
        committed == [tagged EXCEPT !.ret = TRUE, !.authorized_bits = decoded,
                                    !.max_card_id = new_max, !.last_sync = now,
                                    !.nvs = savedBits[1], !.fs = savedBits[2]]
        hasArrays == b.hasAllow \/ b.hasAllowUids \/ b.hasDeny \/ b.hasDenyUids
        allowNew == Unique(Sort(HashAll((IF b.hasAllow THEN b.allow ELSE <<>>)
                                        \o (IF b.hasAllowUids THEN b.allow_uids ELSE <<>>))))
        denyNew == Unique(Sort(HashAll((IF b.hasDeny THEN b.deny ELSE <<>>)
                                       \o (IF b.hasDenyUids THEN b.deny_uids ELSE <<>>))))
        savedHashes == saveETagToNVS(committed.nvs, committed.fs, prefsOpen_,
                                     committed.last_etag, allowNew, denyNew, faultHashes)
    IN  IF ~Online THEN same
        ELSE IF BackoffActive THEN same
        ELSE IF ~probed.server_last_ok THEN probed
        ELSE IF resp.code = 304 THEN [asked EXCEPT !.ret = TRUE, !.last_sync = now]
        ELSE IF resp.code # 200 THEN asked
        ELSE IF ~resp.parse THEN asked
        ELSE IF bytes = 0 \/ bytes > MAX_SAFE_BYTES THEN [tagged EXCEPT !.max_card_id = 0]
        ELSE IF hasArrays /\ (allowNew # <<>> \/ denyNew # <<>>)
             THEN [committed EXCEPT !.allow = allowNew, !.deny = denyNew,
                                    !.nvs = savedHashes[1], !.fs = savedHashes[2]]
             ELSE committed

(***************************************************************************)
(* The state machine.                                                      *)
(***************************************************************************)
Call(op, uid, ret, reqs, card, sync) ==
    [op |-> op, uid |-> uid, ret |-> ret, reqs |-> reqs, card |-> card, sync |-> sync]

EnvStep(op) == Call(op, <<>>, TRUE, <<>>, NoCardResponse, NoSyncResponse)

EmptyNvs == [bitset_etag |-> NoKey, max_id |-> -1]

EmptyFs == [bits |-> AbsentFile, allow_deny |-> AbsentFile]

\* the fields of a freshly constructed AuthSync, AuthSync.h:40-70 and AuthSync.cpp:51-54
Constructed ==
    /\ authorized_bits = ZeroBits
    /\ max_card_id = 0
    /\ last_sync = 0
    /\ last_server_probe = 0
    /\ server_last_ok = FALSE
    /\ prefsOpen_ = FALSE
    /\ allowHashes_ = <<>>
    /\ denyHashes_ = <<>>
    /\ last_etag = ""

Init ==
    /\ wifi \in BOOLEAN
    /\ now = BOOT_DELAY_MS
    /\ phase = "constructed"
    /\ server_base \in {"", SERVER_URL}
    /\ Constructed
    /\ nvs = EmptyNvs
    /\ fs = EmptyFs
    /\ last = EnvStep("boot")

\* the loads shared by begin() and preloadOffline(): prefs_.begin, loadETagFromNVS
LoadCaches(nvsOk, mounted, loadBitsAnyway) ==
    LET open == IF prefsOpen_ THEN TRUE ELSE nvsOk
        tag == loadETagFromNVS(nvs, fs, open, last_etag, allowHashes_, denyHashes_, mounted)
        bits == IF mounted /\ (open \/ loadBitsAnyway)
                THEN loadBitsetFromFS(nvs, fs, open, authorized_bits, max_card_id)
                ELSE <<authorized_bits, max_card_id>>
    IN  /\ prefsOpen_' = open
        /\ last_etag' = tag[1]
        /\ allowHashes_' = tag[2]
        /\ denyHashes_' = tag[3]
        /\ authorized_bits' = bits[1]
        /\ max_card_id' = bits[2]

\* AuthSync::preloadOffline, AuthSync.cpp:138-151, called by setup() (main.cpp:213-217)
PreloadOffline(nvsOk, mounted) ==
    /\ phase = "constructed"
    /\ LoadCaches(nvsOk, mounted, FALSE)
    /\ phase' = "preloaded"
    /\ last' = Call("preloadOffline", <<>>, prefsOpen_', <<>>, NoCardResponse, NoSyncResponse)
    /\ UNCHANGED <<wifi, now, server_base, last_sync, last_server_probe, server_last_ok, nvs, fs>>

\* AuthSync::begin, AuthSync.cpp:122-132: the loads that precede its syncFromServer().
\* setup() calls begin() only with WiFi connected (main.cpp:225-242); the unit
\* tests call it on a fresh object.
BeginLoad(nvsOk, mounted) ==
    /\ \/ phase = "constructed"
       \/ phase = "preloaded" /\ wifi
    /\ LoadCaches(nvsOk, mounted, TRUE)
    /\ phase' = "begin"
    /\ last' = Call("beginLoad", <<>>, TRUE, <<>>, NoCardResponse, NoSyncResponse)
    /\ UNCHANGED <<wifi, now, server_base, last_sync, last_server_probe, server_last_ok, nvs, fs>>

\* setup() without WiFi: begin() is skipped (main.cpp:254-258) and loop() starts
SetupOffline ==
    /\ phase = "preloaded"
    /\ ~wifi
    /\ phase' = "running"
    /\ last' = EnvStep("setupOffline")
    /\ UNCHANGED <<wifi, now, server_base, authorized_bits, max_card_id, last_sync,
                   last_server_probe, server_last_ok, prefsOpen_, allowHashes_,
                   denyHashes_, last_etag, nvs, fs>>

\* a 304 answers a request that carried If-None-Match (AuthSync.cpp:329-331)
SyncInputOk(resp) == resp.code = 304 => last_etag # ""

\* An input the call never reads is held at a default, so that each behaviour
\* of the code is generated once: the probe status when no probe is sent, the
\* answer when no request is sent, a save fault when nothing is saved.
SyncInputsUsed(r, sc, resp, faultBits, faultHashes) ==
    /\ sc # 200 => "status" \in Range(r.reqs)
    /\ resp # NoSyncResponse => "sync" \in Range(r.reqs)
    /\ faultBits # "none" => r.ret /\ resp.code = 200
    /\ faultHashes # "none" => r.ret /\ resp.code = 200 /\ prefsOpen_
                                /\ (r.allow # allowHashes_ \/ r.deny # denyHashes_
                                    \/ resp.body.hasAllow \/ resp.body.hasAllowUids
                                    \/ resp.body.hasDeny \/ resp.body.hasDenyUids)

CardInputsUsed(r, sc, resp, fault) ==
    /\ sc # 200 => "status" \in Range(r.reqs)
    /\ resp # NoCardResponse => "card" \in Range(r.reqs)
    /\ fault # "none" => prefsOpen_ /\ (r.allow # allowHashes_ \/ r.deny # denyHashes_)

ApplySync(r, op) ==
    /\ authorized_bits' = r.authorized_bits
    /\ max_card_id' = r.max_card_id
    /\ last_sync' = r.last_sync
    /\ last_server_probe' = r.last_server_probe
    /\ server_last_ok' = r.server_last_ok
    /\ allowHashes_' = r.allow
    /\ denyHashes_' = r.deny
    /\ last_etag' = r.last_etag
    /\ nvs' = r.nvs
    /\ fs' = r.fs
    /\ last' = Call(op, <<>>, r.ret, r.reqs, NoCardResponse, r.sync)

\* `return syncFromServer();` of begin(), AuthSync.cpp:133
BeginSync(sc, resp, faultBits, faultHashes) ==
    /\ phase = "begin"
    /\ SyncInputOk(resp)
    /\ LET Done(r) ==
               SyncInputsUsed(r, sc, resp, faultBits, faultHashes) /\ ApplySync(r, "syncFromServer")
       IN  Done(syncFromServer(sc, resp, faultBits, faultHashes))
    /\ phase' = "running"
    /\ UNCHANGED <<wifi, now, server_base, prefsOpen_>>

\* AuthSync::update, AuthSync.cpp:153-158, called by NetworkTask (main.cpp:573-577)
Update(sc, resp, faultBits, faultHashes) ==
    /\ phase = "running"
    /\ SyncInputOk(resp)
    /\ IF Elapsed(last_sync) > SYNC_INTERVAL
       THEN LET Done(r) ==
                    SyncInputsUsed(r, sc, resp, faultBits, faultHashes)
                    /\ ApplySync(r, "syncFromServer")
            IN  Done(syncFromServer(sc, resp, faultBits, faultHashes))
       ELSE /\ sc = 200 /\ resp = NoSyncResponse /\ faultBits = "none" /\ faultHashes = "none"
            /\ last' = Call("update", <<>>, TRUE, <<>>, NoCardResponse, NoSyncResponse)
            /\ UNCHANGED <<authorized_bits, max_card_id, last_sync, last_server_probe,
                           server_last_ok, allowHashes_, denyHashes_, last_etag, nvs, fs>>
    /\ UNCHANGED <<wifi, now, phase, server_base, prefsOpen_>>

\* AuthSync::isAuthorized called by loop() on a scan, main.cpp:310
IsAuthorized(uid, sc, resp, fault) ==
    /\ phase = "running"
    /\ LET Done(r) ==
               /\ CardInputsUsed(r, sc, resp, fault)
               /\ last_server_probe' = r.last_server_probe
               /\ server_last_ok' = r.server_last_ok
               /\ allowHashes_' = r.allow
               /\ denyHashes_' = r.deny
               /\ nvs' = r.nvs
               /\ fs' = r.fs
               /\ last' = Call("isAuthorized", uid, r.ret, r.reqs, r.card, NoSyncResponse)
       IN  Done(isAuthorized(uid, sc, resp, fault))
    /\ UNCHANGED <<wifi, now, phase, server_base, authorized_bits, max_card_id, last_sync,
                   prefsOpen_, last_etag>>

\* AuthSync::setServerProbeResult, AuthSync.cpp:671-674, called by the
\* server-check timer with the result of its own probe (main.cpp:525-544);
\* that probe succeeds only with WiFi connected and a configured server.
SetServerProbeResult(ok) ==
    /\ phase = "running"
    /\ ok => Online
    /\ server_last_ok' = ok
    /\ last_server_probe' = now
    /\ last' = EnvStep("setServerProbeResult")
    /\ UNCHANGED <<wifi, now, phase, server_base, authorized_bits, max_card_id, last_sync,
                   prefsOpen_, allowHashes_, denyHashes_, last_etag, nvs, fs>>

\* time passes
Tick ==
    /\ now + TickMs <= MaxNow
    /\ now' = now + TickMs
    /\ last' = EnvStep("tick")
    /\ UNCHANGED <<wifi, phase, server_base, authorized_bits, max_card_id, last_sync,
                   last_server_probe, server_last_ok, prefsOpen_, allowHashes_,
                   denyHashes_, last_etag, nvs, fs>>

\* WiFi connects or drops
WifiChange ==
    /\ wifi' = ~wifi
    /\ last' = EnvStep("wifi")
    /\ UNCHANGED <<now, phase, server_base, authorized_bits, max_card_id, last_sync,
                   last_server_probe, server_last_ok, prefsOpen_, allowHashes_,
                   denyHashes_, last_etag, nvs, fs>>

\* power cycle: RAM and millis() start over, flash (NVS, LittleFS) survives
Reboot ==
    /\ phase = "running"
    /\ authorized_bits' = ZeroBits
    /\ max_card_id' = 0
    /\ last_sync' = 0
    /\ last_server_probe' = 0
    /\ server_last_ok' = FALSE
    /\ prefsOpen_' = FALSE
    /\ allowHashes_' = <<>>
    /\ denyHashes_' = <<>>
    /\ last_etag' = ""
    /\ now' = BOOT_DELAY_MS
    /\ phase' = "constructed"
    /\ last' = EnvStep("boot")
    /\ UNCHANGED <<wifi, server_base, nvs, fs>>

\* Spec explores the decision and sync engine on healthy storage: the NVS
\* namespace opens, LittleFS mounts and every save succeeds.
Next ==
    \/ PreloadOffline(TRUE, TRUE)
    \/ BeginLoad(TRUE, TRUE)
    \/ SetupOffline
    \/ \E sc \in StatusCodes, resp \in SyncResponses \cup {NoSyncResponse} :
            BeginSync(sc, resp, "none", "none")
    \/ \E sc \in StatusCodes, resp \in SyncResponses \cup {NoSyncResponse} :
            Update(sc, resp, "none", "none")
    \/ \E uid \in Uids, sc \in StatusCodes, resp \in CardResponses \cup {NoCardResponse} :
            IsAuthorized(uid, sc, resp, "none")
    \/ \E ok \in BOOLEAN : SetServerProbeResult(ok)
    \/ Tick
    \/ WifiChange
    \/ Reboot

Spec == Init /\ [][Next]_vars

(***************************************************************************)
(* SpecLearn: addKnownAuth alone, any sequence of learns from empty caches.*)
(***************************************************************************)
LearnHashes == {UidHash[u] : u \in LearnUids}

InitLearn ==
    /\ wifi = FALSE
    /\ now = BOOT_DELAY_MS
    /\ phase = "running"
    /\ server_base = SERVER_URL
    /\ authorized_bits = ZeroBits
    /\ max_card_id = 0
    /\ last_sync = 0
    /\ last_server_probe = 0
    /\ server_last_ok = FALSE
    /\ prefsOpen_ \in BOOLEAN
    /\ allowHashes_ = <<>>
    /\ denyHashes_ = <<>>
    /\ last_etag = ""
    /\ nvs = EmptyNvs
    /\ fs = EmptyFs
    /\ last = [op |-> "boot", uid |-> <<>>, allowed |-> FALSE, prev |-> "none",
               recent |-> [h \in LearnHashes |-> "none"], fault |-> "none"]

\* AuthSync::addKnownAuth, AuthSync.cpp:473-494, with its trailing saveETagToNVS().
\* last.recent remembers the latest learn of every fingerprint, last.prev the
\* one this call replaced, last.fault what went wrong in the save.
Learn(uid, allowed, fault) ==
    LET learned == addKnownAuth(allowHashes_, denyHashes_, uid, allowed)
        saved == saveETagToNVS(nvs, fs, prefsOpen_, last_etag, learned[1], learned[2], fault)
        h == UidHash[uid]
    IN  /\ fault # "none" => prefsOpen_
        /\ allowHashes_' = learned[1]
        /\ denyHashes_' = learned[2]
        /\ nvs' = saved[1]
        /\ fs' = saved[2]
        /\ last' = [op |-> "addKnownAuth", uid |-> uid, allowed |-> allowed,
                    prev |-> last.recent[h],
                    recent |-> [last.recent EXCEPT ![h] = IF allowed THEN "allow" ELSE "deny"],
                    fault |-> fault]
        /\ UNCHANGED <<wifi, now, phase, server_base, authorized_bits, max_card_id, last_sync,
                       last_server_probe, server_last_ok, prefsOpen_, last_etag>>

NextLearn == \E uid \in LearnUids, allowed \in BOOLEAN, fault \in FsFaults : Learn(uid, allowed, fault)

SpecLearn == InitLearn /\ [][NextLearn]_vars

(***************************************************************************)
(* SpecSync: the sync engine over a longer time, with version tags and     *)
(* with payloads whose bits are shorter than, equal to and smaller than    *)
(* what is held.  Healthy storage; no scans.                               *)
(***************************************************************************)
\* the clock of SpecSync: one step is more than half a SYNC_INTERVAL
SyncTickMs == 30500

MaxNowSync == 122500

\* values of the ETag response header
ETagsSync == {"", "v1"}

SyncBodiesSync ==
    { Body(9, HEX_0802, FALSE, <<>>, FALSE, <<>>, FALSE, <<>>, FALSE, <<>>),
      Body(9, HEX_08, FALSE, <<>>, FALSE, <<>>, FALSE, <<>>, FALSE, <<>>),
      Body(3, HEX_08, TRUE, <<UID_AB>>, FALSE, <<>>, TRUE, <<UID_CD>>, FALSE, <<>>),
      Body(MAX_SAFE_CARDS, HEX_08, FALSE, <<>>, FALSE, <<>>, FALSE, <<>>, FALSE, <<>>) }

SyncResponsesSync ==
    {[code |-> c, etag |-> "", parse |-> FALSE, body |-> EmptyBody] : c \in {304, 500, -1}}
    \cup {[code |-> 200, etag |-> "", parse |-> FALSE, body |-> EmptyBody]}
    \cup {[code |-> 200, etag |-> e, parse |-> TRUE, body |-> b] :
            e \in ETagsSync, b \in SyncBodiesSync}

\* time passes (SpecSync)
TickSync ==
    /\ now + SyncTickMs <= MaxNowSync
    /\ now' = now + SyncTickMs
    /\ last' = EnvStep("tick")
    /\ UNCHANGED <<wifi, phase, server_base, authorized_bits, max_card_id, last_sync,
                   last_server_probe, server_last_ok, prefsOpen_, allowHashes_,
                   denyHashes_, last_etag, nvs, fs>>

NextSync ==
    \/ PreloadOffline(TRUE, TRUE)
    \/ BeginLoad(TRUE, TRUE)
    \/ SetupOffline
    \/ \E sc \in StatusCodes, resp \in SyncResponsesSync \cup {NoSyncResponse} :
            BeginSync(sc, resp, "none", "none")
    \/ \E sc \in StatusCodes, resp \in SyncResponsesSync \cup {NoSyncResponse} :
            Update(sc, resp, "none", "none")
    \/ \E ok \in BOOLEAN : SetServerProbeResult(ok)
    \/ TickSync
    \/ WifiChange
    \/ Reboot

SpecSync == Init /\ [][NextSync]_vars

(***************************************************************************)
(* SpecBits: the bitset store of the production build: boot loads, syncs   *)
(* that grow and shrink the bitset, and the bit accessors.                 *)
(* SpecHook: the same in a build with AUTH_TEST_HOOK, which adds           *)
(* TEST_setMaxCardId.                                                      *)
(***************************************************************************)
\* ids handed to setBit / clearBit
BitIds == {0, 3, 9, 10}

\* every id whose bit the model tracks, and two beyond
AllIds == 0..(8 * BufBytes + 1)

\* arguments of TEST_setMaxCardId; the last is (size_t)-1
HookArgs == {3, 2999, MAX_SAFE_CARDS - 1, MAX_SAFE_CARDS, UINT_MOD - 1}

SyncResponsesBits ==
    {[code |-> 500, etag |-> "", parse |-> FALSE, body |-> EmptyBody]}
    \cup {[code |-> 200, etag |-> "", parse |-> TRUE, body |-> b] : b \in SyncBodiesSync}

InitBits ==
    /\ wifi = TRUE
    /\ now = BOOT_DELAY_MS
    /\ phase = "constructed"
    /\ server_base = SERVER_URL
    /\ Constructed
    /\ nvs = EmptyNvs
    /\ fs = EmptyFs
    /\ last = EnvStep("boot")

\* setBit(id); the call's argument is kept in last.uid
SetBit(id) ==
    /\ phase = "running"
    /\ authorized_bits' = setBit(authorized_bits, max_card_id, id)
    /\ last' = Call("setBit", <<id>>, TRUE, <<>>, NoCardResponse, NoSyncResponse)
    /\ UNCHANGED <<wifi, now, phase, server_base, max_card_id, last_sync, last_server_probe,
                   server_last_ok, prefsOpen_, allowHashes_, denyHashes_, last_etag, nvs, fs>>

\* clearBit(id)
ClearBit(id) ==
    /\ phase = "running"
    /\ authorized_bits' = clearBit(authorized_bits, max_card_id, id)
    /\ last' = Call("clearBit", <<id>>, TRUE, <<>>, NoCardResponse, NoSyncResponse)
    /\ UNCHANGED <<wifi, now, phase, server_base, max_card_id, last_sync, last_server_probe,
                   server_last_ok, prefsOpen_, allowHashes_, denyHashes_, last_etag, nvs, fs>>

\* TEST_setMaxCardId(n), called by the unit tests (test_authsync.cpp:213 and :245)
TestSetMaxCardId(n) ==
    /\ phase = "running"
    /\ LET Done(r) ==
               authorized_bits' = r[1] /\ max_card_id' = r[2]
       IN  Done(TEST_setMaxCardId(authorized_bits, n))
    /\ last' = Call("TEST_setMaxCardId", <<n>>, TRUE, <<>>, NoCardResponse, NoSyncResponse)
    /\ UNCHANGED <<wifi, now, phase, server_base, last_sync, last_server_probe,
                   server_last_ok, prefsOpen_, allowHashes_, denyHashes_, last_etag, nvs, fs>>

NextBits ==
    \/ PreloadOffline(TRUE, TRUE)
    \/ BeginLoad(TRUE, TRUE)
    \/ \E sc \in StatusCodes, resp \in SyncResponsesBits \cup {NoSyncResponse} :
            BeginSync(sc, resp, "none", "none")
    \/ \E id \in BitIds : SetBit(id)
    \/ \E id \in BitIds : ClearBit(id)
    \/ Reboot

SpecBits == InitBits /\ [][NextBits]_vars

NextHook ==
    \/ NextBits
    \/ \E n \in HookArgs : TestSetMaxCardId(n)

SpecHook == InitBits /\ [][NextHook]_vars

(***************************************************************************)
(* SpecCalc: calcBitsetBytes and the two getters, for max_card_id drawn    *)
(* from the small values, the sizes of the tests and the top of the range. *)
(***************************************************************************)
CalcSmall == 64

CalcTop == 10

CalcInputs ==
    (0..CalcSmall) \cup {2999, MAX_SAFE_CARDS - 1, MAX_SAFE_CARDS}
    \cup ((UINT_MOD - CalcTop)..(UINT_MOD - 1))

InitCalc ==
    /\ wifi = FALSE
    /\ now = BOOT_DELAY_MS
    /\ phase = "running"
    /\ server_base = SERVER_URL
    /\ authorized_bits = ZeroBits
    /\ max_card_id \in CalcInputs
    /\ last_sync = 0
    /\ last_server_probe = 0
    /\ server_last_ok = FALSE
    /\ prefsOpen_ = FALSE
    /\ allowHashes_ = <<>>
    /\ denyHashes_ = <<>>
    /\ last_etag = ""
    /\ nvs = EmptyNvs
    /\ fs = EmptyFs
    /\ last = [op |-> "boot", count |-> 0, bytes |-> 0]

\* getCardCount() and getMemoryUsed() read, as the tests read them
\* (test_authsync.cpp:161-162 and :215-216)
GetMemoryUsed ==
    /\ last.op = "boot"
    /\ last' = [op |-> "getMemoryUsed", count |-> getCardCount(max_card_id),
                bytes |-> getMemoryUsed(max_card_id)]
    /\ UNCHANGED <<wifi, now, phase, server_base, authorized_bits, max_card_id, last_sync,
                   last_server_probe, server_last_ok, prefsOpen_, allowHashes_,
                   denyHashes_, last_etag, nvs, fs>>

NextCalc == GetMemoryUsed

SpecCalc == InitCalc /\ [][NextCalc]_vars

(***************************************************************************)
(* SpecProbe: who asks GET /api/status, and when.  The engine's inline     *)
(* probes together with the two probes of main.cpp: updateEnrollStatus     *)
(* after every scan and the server-check timer.  In this specification     *)
(* `last` is the probe log: the times of the probes of the step just       *)
(* taken, the time of the latest probe before it, main.cpp's               *)
(* serverReachable flag and the time the timer last fired.                 *)
(***************************************************************************)
\* period of the server-check timer, main.cpp:556
SERVER_CHECK_PERIOD_MS == 5000

ProbeTickMs == 2500

MaxNowProbe == 10500

\* status code and "body parses" of the poll of updateEnrollStatus; a
\* transport error has no body to parse
EnrollAnswers == {<<200, TRUE>>, <<200, FALSE>>, <<-1, FALSE>>, <<503, TRUE>>}

SyncResponsesProbe ==
    { [code |-> 500, etag |-> "", parse |-> FALSE, body |-> EmptyBody],
      [code |-> 200, etag |-> "", parse |-> TRUE,
       body |-> Body(9, HEX_0802, TRUE, <<UID_AB>>, FALSE, <<>>, TRUE, <<UID_CD>>, FALSE, <<>>)] }

ProbeLog(op, probes, before, reachable, timerAt) ==
    [op |-> op, probes |-> probes, before |-> before, serverReachable |-> reachable,
     timerAt |-> timerAt]

\* the time of the latest probe up to and including the step just taken; -1: none yet
LatestProbe == IF last.probes # <<>> THEN last.probes[Len(last.probes)] ELSE last.before

\* one entry, the time t, for every "status" request of a call
StatusProbes(reqs, t) == [i \in 1..Len(SelectSeq(reqs, LAMBDA r : r = "status")) |-> t]

InitProbe ==
    /\ wifi \in BOOLEAN
    /\ now = BOOT_DELAY_MS
    /\ phase = "begin"
    /\ server_base = SERVER_URL
    /\ Constructed
    /\ nvs = EmptyNvs
    /\ fs = EmptyFs
    /\ last = ProbeLog("boot", <<>>, -1, FALSE, 0)

\* setup(), main.cpp:225-258: begin() -> syncFromServer() with WiFi, nothing
\* without; serverReachable is the result; the timers start
SetupProbe(sc, resp) ==
    /\ phase = "begin"
    /\ IF wifi
       THEN LET Done(r) ==
                    /\ SyncInputsUsed(r, sc, resp, "none", "none")
                    /\ authorized_bits' = r.authorized_bits
                    /\ max_card_id' = r.max_card_id
                    /\ last_sync' = r.last_sync
                    /\ last_server_probe' = r.last_server_probe
                    /\ server_last_ok' = r.server_last_ok
                    /\ allowHashes_' = r.allow
                    /\ denyHashes_' = r.deny
                    /\ last_etag' = r.last_etag
                    /\ nvs' = r.nvs
                    /\ fs' = r.fs
                    /\ last' = ProbeLog("setup", StatusProbes(r.reqs, now), LatestProbe, r.ret, now)
            IN  Done(syncFromServer(sc, resp, "none", "none"))
       ELSE /\ sc = 200 /\ resp = NoSyncResponse
            /\ last' = ProbeLog("setup", <<>>, LatestProbe, FALSE, now)
            /\ UNCHANGED <<authorized_bits, max_card_id, last_sync, last_server_probe,
                           server_last_ok, allowHashes_, denyHashes_, last_etag, nvs, fs>>
    /\ phase' = "running"
    /\ UNCHANGED <<wifi, now, server_base, prefsOpen_>>

\* updateEnrollStatus, main.cpp:490-522: serverReachable after the poll
updateEnrollStatus(reachable, code, parseOk) ==
    IF ~Online THEN FALSE
    ELSE IF ~parseOk THEN FALSE
    ELSE IF code > 0 /\ code < 400 THEN TRUE
    ELSE reachable

\* a scan in loop(), main.cpp:292-312: isAuthorized(uid), then updateEnrollStatus()
ScanLoop(uid, sc, resp, answer) ==
    /\ phase = "running"
    /\ ~Online => answer = <<200, TRUE>>
    /\ LET Done(r) ==
               /\ CardInputsUsed(r, sc, resp, "none")
               /\ last_server_probe' = r.last_server_probe
               /\ server_last_ok' = r.server_last_ok
               /\ allowHashes_' = r.allow
               /\ denyHashes_' = r.deny
               /\ nvs' = r.nvs
               /\ fs' = r.fs
               /\ last' = ProbeLog("scan",
                                   StatusProbes(r.reqs, now) \o (IF Online THEN <<now>> ELSE <<>>),
                                   LatestProbe,
                                   updateEnrollStatus(last.serverReachable, answer[1], answer[2]),
                                   last.timerAt)
       IN  Done(isAuthorized(uid, sc, resp, "none"))
    /\ UNCHANGED <<wifi, now, phase, server_base, authorized_bits, max_card_id, last_sync,
                   prefsOpen_, last_etag>>

\* serverCheckTimerCallback, main.cpp:525-544, every SERVER_CHECK_PERIOD_MS
ServerCheckTimer(code) ==
    /\ phase = "running"
    /\ now >= last.timerAt + SERVER_CHECK_PERIOD_MS
    /\ ~Online => code = 200
    /\ LET nowReachable == Online /\ code = 200
       IN  /\ IF nowReachable # last.serverReachable
              THEN server_last_ok' = nowReachable /\ last_server_probe' = now
              ELSE UNCHANGED <<server_last_ok, last_server_probe>>
           /\ last' = ProbeLog("serverCheckTimer", IF Online THEN <<now>> ELSE <<>>,
                               LatestProbe, nowReachable, now)
    /\ UNCHANGED <<wifi, now, phase, server_base, authorized_bits, max_card_id, last_sync,
                   prefsOpen_, allowHashes_, denyHashes_, last_etag, nvs, fs>>

\* time passes (SpecProbe); a timer that is due fires first
TickProbe ==
    /\ phase = "running"
    /\ now < last.timerAt + SERVER_CHECK_PERIOD_MS
    /\ now + ProbeTickMs <= MaxNowProbe
    /\ now' = now + ProbeTickMs
    /\ last' = ProbeLog("tick", <<>>, LatestProbe, last.serverReachable, last.timerAt)
    /\ UNCHANGED <<wifi, phase, server_base, authorized_bits, max_card_id, last_sync,
                   last_server_probe, server_last_ok, prefsOpen_, allowHashes_,
                   denyHashes_, last_etag, nvs, fs>>

\* WiFi connects or drops (SpecProbe)
WifiChangeProbe ==
    /\ phase = "running"
    /\ wifi' = ~wifi
    /\ last' = ProbeLog("wifi", <<>>, LatestProbe, last.serverReachable, last.timerAt)
    /\ UNCHANGED <<now, phase, server_base, authorized_bits, max_card_id, last_sync,
                   last_server_probe, server_last_ok, prefsOpen_, allowHashes_,
                   denyHashes_, last_etag, nvs, fs>>

NextProbe ==
    \/ \E sc \in StatusCodes, resp \in SyncResponsesProbe \cup {NoSyncResponse} :
            SetupProbe(sc, resp)
    \/ \E uid \in {UID_AB, UID_CD}, sc \in StatusCodes,
          resp \in CardResponses \cup {NoCardResponse}, answer \in EnrollAnswers :
            ScanLoop(uid, sc, resp, answer)
    \/ \E code \in StatusCodes : ServerCheckTimer(code)
    \/ TickProbe
    \/ WifiChangeProbe

SpecProbe == InitProbe /\ [][NextProbe]_vars

(***************************************************************************)
(* SpecTasks: the concurrency scaffold of main.cpp around the engine: the  *)
(* foreground loop(), the NetworkTask, the three timer callbacks and the   *)
(* scan queue.  In this specification `last` holds the step just taken     *)
(* (operation, the HTTP requests it sent, the result of its xQueueSend)    *)
(* and, in last.main, the globals of main.cpp.  The display and the enroll *)
(* mode it shows are left out.                                             *)
(*                                                                         *)
(* loop() is three independent blocks (scan, display refresh, enroll       *)
(* poll) and each is one action: the NetworkTask and the timer task run on *)
(* their own, so their steps may fall between two blocks of one iteration. *)
(***************************************************************************)
\* xQueueCreate(10, sizeof(ScanItem)), main.cpp:266
SCAN_QUEUE_LEN == 10

\* `for (int i = 0; i < 3; ++i)` of the drain, main.cpp:581
DRAIN_PER_CYCLE == 3

\* main.cpp:64
ENROLL_POLL_INTERVAL_MS == 5000

\* the clock of SpecTasks: every step is longer than the timer periods
\* (500 ms and 5000 ms, main.cpp:283, :556, :563)
TaskTickMs == 5500

MaxNowTasks == 6000

TimerNames == {"serverCheck", "authSync", "display"}

\* the globals of main.cpp: serverReachable (:94), authSyncRequested (:126),
\* displayUpdateRequested (:128), scanQueue (:122), lastEnrollPoll (:100);
\* due: the timers whose period has elapsed since they last fired;
\* inLoop: <<uid>> while loop() waits for the answer to the lookup of uid inside
\* isAuthorized(uid), inNet: TRUE while the NetworkTask waits for the answer to
\* GET /api/sync inside syncFromServer().  Both are idle wherever the calls are
\* taken as one step.
Globals(reachable, syncReq, dispReq, queue, poll, due) ==
    [serverReachable |-> reachable, authSyncRequested |-> syncReq,
     displayUpdateRequested |-> dispReq, scanQueue |-> queue, lastEnrollPoll |-> poll,
     due |-> due, inLoop |-> <<>>, inNet |-> FALSE]

\* a step: the operation, the HTTP requests it sent, what its call into the
\* engine returned (isAuthorized, syncFromServer), whether its xQueueSend
\* returned pdPASS, and the globals after it
CallStep(op, reqs, ret, sent, main) ==
    [op |-> op, reqs |-> reqs, ret |-> ret, sent |-> sent, main |-> main]

\* a step without a call into the engine
TaskStep(op, reqs, sent, main) == CallStep(op, reqs, FALSE, sent, main)

\* fault: a full queue gives up its oldest item
xQueueSend_Overwrite(q, item) ==
    IF Len(q) < SCAN_QUEUE_LEN THEN <<Append(q, item), TRUE>>
    ELSE <<Append(Tail(q), item), TRUE>>

\* xQueueSend(scanQueue, &item, 0), main.cpp:320: <<queue, pdPASS>> after the
\* call; with a wait of 0 ticks a full queue refuses at once
xQueueSend(q, item) ==
    IF Len(q) < SCAN_QUEUE_LEN THEN <<Append(q, item), TRUE>>
    ELSE <<q, FALSE>>

\* fault: the drain does not look at serverReachable
DrainCount_Always(q, reachable) ==
    IF Len(q) < DRAIN_PER_CYCLE THEN Len(q) ELSE DRAIN_PER_CYCLE

\* the drain loop of NetworkTask, main.cpp:580-608: how many xQueueReceive
\* calls of one cycle return an item
DrainCount(q, reachable) ==
    IF ~reachable THEN 0
    ELSE IF Len(q) < DRAIN_PER_CYCLE THEN Len(q) ELSE DRAIN_PER_CYCLE

\* postLastScan, main.cpp:450-487: the requests of k calls in a row
postLastScan(k, reachable) ==
    IF Online /\ reachable THEN [i \in 1..k |-> "last_scan"] ELSE <<>>

InitTasks ==
    /\ wifi \in BOOLEAN
    /\ now = BOOT_DELAY_MS
    /\ phase = "begin"
    /\ server_base = SERVER_URL
    /\ Constructed
    /\ nvs = EmptyNvs
    /\ fs = EmptyFs
    /\ last = TaskStep("boot", <<>>, FALSE, Globals(FALSE, FALSE, FALSE, <<>>, 0, {}))

\* setup(), main.cpp:225-288: begin() -> syncFromServer() with WiFi, nothing
\* without; serverReachable is the result; the queue, the NetworkTask and the
\* timers are created
SetupTasks(sc, resp) ==
    /\ phase = "begin"
    /\ IF wifi
       THEN LET Done(r) ==
                    /\ SyncInputsUsed(r, sc, resp, "none", "none")
                    /\ authorized_bits' = r.authorized_bits
                    /\ max_card_id' = r.max_card_id
                    /\ last_sync' = r.last_sync
                    /\ last_server_probe' = r.last_server_probe
                    /\ server_last_ok' = r.server_last_ok
                    /\ allowHashes_' = r.allow
                    /\ denyHashes_' = r.deny
                    /\ last_etag' = r.last_etag
                    /\ nvs' = r.nvs
                    /\ fs' = r.fs
                    /\ last' = CallStep("setup", r.reqs, r.ret, FALSE,
                                        [last.main EXCEPT !.serverReachable = r.ret])
            IN  Done(syncFromServer(sc, resp, "none", "none"))
       ELSE /\ sc = 200 /\ resp = NoSyncResponse
            /\ last' = TaskStep("setup", <<>>, FALSE, last.main)
            /\ UNCHANGED <<authorized_bits, max_card_id, last_sync, last_server_probe,
                           server_last_ok, allowHashes_, denyHashes_, last_etag, nvs, fs>>
    /\ phase' = "running"
    /\ UNCHANGED <<wifi, now, server_base, prefsOpen_>>

\* the scan block of loop(), main.cpp:292-326: isAuthorized(uid),
\* updateEnrollStatus(), then the scan is queued for the NetworkTask
Scan(uid, sc, resp, answer) ==
    /\ phase = "running"
    /\ last.main.inLoop = <<>>
    /\ ~Online => answer = <<200, TRUE>>
    /\ LET sent == xQueueSend(last.main.scanQueue, uid)
           Done(r) ==
               /\ CardInputsUsed(r, sc, resp, "none")
               /\ last_server_probe' = r.last_server_probe
               /\ server_last_ok' = r.server_last_ok
               /\ allowHashes_' = r.allow
               /\ denyHashes_' = r.deny
               /\ nvs' = r.nvs
               /\ fs' = r.fs
               /\ last' = CallStep("scan",
                                   r.reqs \o (IF Online THEN <<"status">> ELSE <<>>),
                                   r.ret, sent[2],
                                   [last.main EXCEPT
                                      !.serverReachable =
                                          updateEnrollStatus(last.main.serverReachable,
                                                             answer[1], answer[2]),
                                      !.scanQueue = sent[1]])
       IN  Done(isAuthorized(uid, sc, resp, "none"))
    /\ UNCHANGED <<wifi, now, phase, server_base, authorized_bits, max_card_id, last_sync,
                   prefsOpen_, last_etag>>

\* the display block of loop(), main.cpp:333-337
DisplayRefresh ==
    /\ phase = "running"
    /\ last.main.inLoop = <<>>
    /\ last.main.displayUpdateRequested
    /\ last' = TaskStep("display", <<>>, FALSE,
                        [last.main EXCEPT !.displayUpdateRequested = FALSE])
    /\ UNCHANGED <<wifi, now, phase, server_base, authorized_bits, max_card_id, last_sync,
                   last_server_probe, server_last_ok, prefsOpen_, allowHashes_,
                   denyHashes_, last_etag, nvs, fs>>

\* the enroll-poll block of loop(), main.cpp:347-350
EnrollPoll(answer) ==
    /\ phase = "running"
    /\ last.main.inLoop = <<>>
    /\ now - last.main.lastEnrollPoll > ENROLL_POLL_INTERVAL_MS
    /\ ~Online => answer = <<200, TRUE>>
    /\ last' = TaskStep("enrollPoll", IF Online THEN <<"status">> ELSE <<>>, FALSE,
                        [last.main EXCEPT
                           !.lastEnrollPoll = now,
                           !.serverReachable =
                               updateEnrollStatus(last.main.serverReachable,
                                                  answer[1], answer[2])])
    /\ UNCHANGED <<wifi, now, phase, server_base, authorized_bits, max_card_id, last_sync,
                   last_server_probe, server_last_ok, prefsOpen_, allowHashes_,
                   denyHashes_, last_etag, nvs, fs>>

\* serverCheckTimerCallback, main.cpp:525-544, run by the timer task
ServerCheckTimerCallback(code) ==
    /\ phase = "running"
    /\ "serverCheck" \in last.main.due
    /\ ~Online => code = 200
    /\ LET nowReachable == Online /\ code = 200
       IN  /\ IF nowReachable # last.main.serverReachable
              THEN server_last_ok' = nowReachable /\ last_server_probe' = now
              ELSE UNCHANGED <<server_last_ok, last_server_probe>>
           /\ last' = TaskStep("serverCheckTimerCallback",
                               IF Online THEN <<"status">> ELSE <<>>, FALSE,
                               [last.main EXCEPT !.serverReachable = nowReachable,
                                                 !.due = @ \ {"serverCheck"}])
    /\ UNCHANGED <<wifi, now, phase, server_base, authorized_bits, max_card_id, last_sync,
                   prefsOpen_, allowHashes_, denyHashes_, last_etag, nvs, fs>>

\* authSyncTimerCallback, main.cpp:548
AuthSyncTimerCallback ==
    /\ phase = "running"
    /\ "authSync" \in last.main.due
    /\ last' = TaskStep("authSyncTimerCallback", <<>>, FALSE,
                        [last.main EXCEPT !.authSyncRequested = TRUE,
                                          !.due = @ \ {"authSync"}])
    /\ UNCHANGED <<wifi, now, phase, server_base, authorized_bits, max_card_id, last_sync,
                   last_server_probe, server_last_ok, prefsOpen_, allowHashes_,
                   denyHashes_, last_etag, nvs, fs>>

\* displayTimerCallback, main.cpp:129
DisplayTimerCallback ==
    /\ phase = "running"
    /\ "display" \in last.main.due
    /\ last' = TaskStep("displayTimerCallback", <<>>, FALSE,
                        [last.main EXCEPT !.displayUpdateRequested = TRUE,
                                          !.due = @ \ {"display"}])
    /\ UNCHANGED <<wifi, now, phase, server_base, authorized_bits, max_card_id, last_sync,
                   last_server_probe, server_last_ok, prefsOpen_, allowHashes_,
                   denyHashes_, last_etag, nvs, fs>>

\* one cycle of the for (;;) of NetworkTask, main.cpp:569-615: update() when
\* the flag is set, then the drain of the scan queue.  enrolled: a post was
\* answered with "enrolled": true.
NetworkCycle(sc, resp, enrolled) ==
    /\ phase = "running"
    /\ ~last.main.inNet
    /\ LET m == last.main
           doUpdate == m.serverReachable /\ m.authSyncRequested
           doSync == doUpdate /\ Elapsed(last_sync) > SYNC_INTERVAL
           k == DrainCount(m.scanQueue, m.serverReachable)
           posts == postLastScan(k, m.serverReachable)
       IN  /\ SyncInputOk(resp)
           /\ enrolled => posts # <<>>
           /\ IF doSync
              THEN LET Done(r) ==
                           /\ SyncInputsUsed(r, sc, resp, "none", "none")
                           /\ authorized_bits' = r.authorized_bits
                           /\ max_card_id' = r.max_card_id
                           /\ last_sync' = r.last_sync
                           /\ last_server_probe' = r.last_server_probe
                           /\ server_last_ok' = r.server_last_ok
                           /\ allowHashes_' = r.allow
                           /\ denyHashes_' = r.deny
                           /\ last_etag' = r.last_etag
                           /\ nvs' = r.nvs
                           /\ fs' = r.fs
                           /\ last' = CallStep("NetworkTask", r.reqs \o posts, r.ret, FALSE,
                                               [m EXCEPT
                                                  !.authSyncRequested = FALSE,
                                                  !.displayUpdateRequested = @ \/ enrolled,
                                                  !.scanQueue = SubSeq(@, k + 1, Len(@))])
                   IN  Done(syncFromServer(sc, resp, "none", "none"))
              ELSE /\ sc = 200 /\ resp = NoSyncResponse
                   /\ last' = TaskStep("NetworkTask", posts, FALSE,
                                       [m EXCEPT
                                          !.authSyncRequested = @ /\ ~doUpdate,
                                          !.displayUpdateRequested = @ \/ enrolled,
                                          !.scanQueue = SubSeq(@, k + 1, Len(@))])
                   /\ UNCHANGED <<authorized_bits, max_card_id, last_sync, last_server_probe,
                                  server_last_ok, allowHashes_, denyHashes_, last_etag,
                                  nvs, fs>>
    /\ UNCHANGED <<wifi, now, phase, server_base, prefsOpen_>>

\* time passes (SpecTasks): every timer becomes due
TickTasks ==
    /\ phase = "running"
    /\ now + TaskTickMs <= MaxNowTasks
    /\ now' = now + TaskTickMs
    /\ last' = TaskStep("tick", <<>>, FALSE, [last.main EXCEPT !.due = TimerNames])
    /\ UNCHANGED <<wifi, phase, server_base, authorized_bits, max_card_id, last_sync,
                   last_server_probe, server_last_ok, prefsOpen_, allowHashes_,
                   denyHashes_, last_etag, nvs, fs>>

\* WiFi connects or drops (SpecTasks)
WifiChangeTasks ==
    /\ phase = "running"
    /\ wifi' = ~wifi
    /\ last' = TaskStep("wifi", <<>>, FALSE, last.main)
    /\ UNCHANGED <<now, phase, server_base, authorized_bits, max_card_id, last_sync,
                   last_server_probe, server_last_ok, prefsOpen_, allowHashes_,
                   denyHashes_, last_etag, nvs, fs>>

\* the poll of updateEnrollStatus in SpecTasks: answered, or a transport error
EnrollAnswersTasks == {<<200, TRUE>>, <<-1, FALSE>>}

\* answers to GET /api/cards/<uid> in SpecTasks: not found, allowed
CardResponsesTasks ==
    { [code |-> 404, parse |-> FALSE, exists |-> "absent", authorized |-> "absent"],
      [code |-> 200, parse |-> TRUE, exists |-> "true", authorized |-> "true"] }

NextTasks ==
    \/ \E sc \in StatusCodes, resp \in SyncResponsesProbe \cup {NoSyncResponse} :
            SetupTasks(sc, resp)
    \/ \E sc \in StatusCodes, resp \in CardResponsesTasks \cup {NoCardResponse},
          answer \in EnrollAnswersTasks :
            Scan(UID_AB, sc, resp, answer)
    \/ DisplayRefresh
    \/ \E answer \in EnrollAnswersTasks : EnrollPoll(answer)
    \/ \E code \in StatusCodes : ServerCheckTimerCallback(code)
    \/ AuthSyncTimerCallback
    \/ DisplayTimerCallback
    \/ \E sc \in StatusCodes, resp \in SyncResponsesProbe \cup {NoSyncResponse},
          enrolled \in BOOLEAN :
            NetworkCycle(sc, resp, enrolled)
    \/ TickTasks
    \/ WifiChangeTasks

SpecTasks == InitTasks /\ [][NextTasks]_vars

(***************************************************************************)
(* SpecQueue: the scan queue between loop() and the NetworkTask, with two  *)
(* credentials so that the order of the queued scans shows.  The authority *)
(* knows neither credential, the clock stands still and WiFi is as it was  *)
(* at boot.                                                                *)
(***************************************************************************)
QueueUids == {UID_AB, UID_CD}

CardResponsesQueue ==
    { [code |-> 404, parse |-> FALSE, exists |-> "absent", authorized |-> "absent"] }

NextQueue ==
    \/ \E sc \in StatusCodes, resp \in SyncResponsesProbe \cup {NoSyncResponse} :
            SetupTasks(sc, resp)
    \/ \E uid \in QueueUids, sc \in StatusCodes,
          resp \in CardResponsesQueue \cup {NoCardResponse}, answer \in EnrollAnswersTasks :
            Scan(uid, sc, resp, answer)
    \/ NetworkCycle(200, NoSyncResponse, FALSE)

SpecQueue == InitTasks /\ [][NextQueue]_vars

(***************************************************************************)
(* SpecRace: the three execution contexts in parallel.  loop() runs on     *)
(* core 1 (the Arduino loop task), the NetworkTask is pinned to core 0     *)
(* (main.cpp:268-276) and the timer callbacks run in the FreeRTOS timer    *)
(* task; nothing in the source takes a lock.  The two calls that wait for  *)
(* the network in the middle of their work are taken in two steps, up to   *)
(* the request and from its answer: isAuthorized around the lookup         *)
(* (AuthSync.cpp:224-226) and syncFromServer around the fetch (:332).      *)
(* Steps of the other contexts may fall in between.  These are the         *)
(* interleavings at the blocking points only; the cores interleave at      *)
(* every instruction.                                                      *)
(***************************************************************************)
RaceTickMs == 61000

MaxNowRace == 61500

\* a request that has not been answered yet
LookupPending == [code |-> -1, parse |-> FALSE, exists |-> "absent", authorized |-> "absent"]

FetchPending == [code |-> -1, etag |-> "", parse |-> FALSE, body |-> EmptyBody]

\* isAuthorized from the answer of the lookup on, AuthSync.cpp:227-243 and
\* :181-186: the vectors as they are now take the learned result
isAuthorizedResume(uid, resp, fault) ==
    LET same == [ret |-> FALSE, allow |-> allowHashes_, deny |-> denyHashes_,
                 nvs |-> nvs, fs |-> fs]
        authorized == JsonBoolOr(resp.authorized, FALSE)
        learned == addKnownAuth(allowHashes_, denyHashes_, uid, authorized)
        saved == saveETagToNVS(nvs, fs, prefsOpen_, last_etag, learned[1], learned[2], fault)
    IN  IF resp.code # 200 THEN same
        ELSE IF ~resp.parse THEN same
        ELSE IF ~JsonBoolOr(resp.exists, FALSE) THEN same
        ELSE [ret |-> authorized, allow |-> learned[1], deny |-> learned[2],
              nvs |-> saved[1], fs |-> saved[2]]

\* syncFromServer from the answer of the fetch on, AuthSync.cpp:333-436
syncFromServerResume(resp, faultBits, faultHashes) ==
    LET asked == [ret |-> FALSE, reqs |-> <<>>, sync |-> resp,
                  authorized_bits |-> authorized_bits, max_card_id |-> max_card_id,
                  last_sync |-> last_sync, last_server_probe |-> last_server_probe,
                  server_last_ok |-> server_last_ok, allow |-> allowHashes_,
                  deny |-> denyHashes_, last_etag |-> last_etag, nvs |-> nvs, fs |-> fs]
        b == resp.body
        new_max == b.max_id
        tagged == IF resp.etag # ""
                  THEN [asked EXCEPT !.last_etag = resp.etag,
                                     !.nvs = IF prefsOpen_
                                             THEN [nvs EXCEPT !.bitset_etag = resp.etag]
                                             ELSE nvs]
                  ELSE asked
        bytes == calcBitsetBytes(new_max)
        decoded == DecodeHexFrom(FillZero(authorized_bits, bytes), b.bits, 0,
                                 calcBitsetBytes(max_card_id))
        savedBits == IF faultBits = "mount" THEN <<tagged.nvs, tagged.fs>>
                     ELSE saveBitsetToFS(tagged.nvs, tagged.fs, prefsOpen_, decoded, new_max,
                                         bytes, faultBits)
        committed == [tagged EXCEPT !.ret = TRUE, !.authorized_bits = decoded,
                                    !.max_card_id = new_max, !.last_sync = now,
                                    !.nvs = savedBits[1], !.fs = savedBits[2]]
        hasArrays == b.hasAllow \/ b.hasAllowUids \/ b.hasDeny \/ b.hasDenyUids
        allowNew == Unique(Sort(HashAll((IF b.hasAllow THEN b.allow ELSE <<>>)
                                        \o (IF b.hasAllowUids THEN b.allow_uids ELSE <<>>))))
        denyNew == Unique(Sort(HashAll((IF b.hasDeny THEN b.deny ELSE <<>>)
                                       \o (IF b.hasDenyUids THEN b.deny_uids ELSE <<>>))))
        savedHashes == saveETagToNVS(committed.nvs, committed.fs, prefsOpen_,
                                     committed.last_etag, allowNew, denyNew, faultHashes)
    IN  IF resp.code = 304 THEN [asked EXCEPT !.ret = TRUE, !.last_sync = now]
        ELSE IF resp.code # 200 THEN asked
        ELSE IF ~resp.parse THEN asked
        ELSE IF bytes = 0 \/ bytes > MAX_SAFE_BYTES THEN [tagged EXCEPT !.max_card_id = 0]
        ELSE IF hasArrays /\ (allowNew # <<>> \/ denyNew # <<>>)
             THEN [committed EXCEPT !.allow = allowNew, !.deny = denyNew,
                                    !.nvs = savedHashes[1], !.fs = savedHashes[2]]
             ELSE committed

\* loop(), scan block, up to the lookup request of isAuthorized(uid): the cache
\* searches, the backoff test and the inline probe have run (what isAuthorized
\* does while the lookup is unanswered) and GET /api/cards/<uid> is on its way
ScanBegin(uid, sc) ==
    /\ phase = "running"
    /\ last.main.inLoop = <<>>
    /\ LET Done(r) ==
               /\ "card" \in Range(r.reqs)
               /\ sc # 200 => "status" \in Range(r.reqs)
               /\ last_server_probe' = r.last_server_probe
               /\ server_last_ok' = r.server_last_ok
               /\ last' = TaskStep("scanBegin", r.reqs, FALSE, [last.main EXCEPT !.inLoop = <<uid>>])
       IN  Done(isAuthorized(uid, sc, LookupPending, "none"))
    /\ UNCHANGED <<wifi, now, phase, server_base, authorized_bits, max_card_id, last_sync,
                   prefsOpen_, allowHashes_, denyHashes_, last_etag, nvs, fs>>

\* loop(), scan block, from the answer of the lookup on: the result is learned,
\* then updateEnrollStatus() and the enqueue (main.cpp:310-325)
ScanEnd(resp, answer) ==
    /\ phase = "running"
    /\ last.main.inLoop # <<>>
    /\ ~Online => answer = <<200, TRUE>>
    /\ LET uid == last.main.inLoop[1]
           sent == xQueueSend(last.main.scanQueue, uid)
           Done(r) ==
               /\ allowHashes_' = r.allow
               /\ denyHashes_' = r.deny
               /\ nvs' = r.nvs
               /\ fs' = r.fs
               /\ last' = CallStep("scan", IF Online THEN <<"status">> ELSE <<>>, r.ret, sent[2],
                                   [last.main EXCEPT
                                      !.serverReachable =
                                          updateEnrollStatus(last.main.serverReachable,
                                                             answer[1], answer[2]),
                                      !.scanQueue = sent[1],
                                      !.inLoop = <<>>])
       IN  Done(isAuthorizedResume(uid, resp, "none"))
    /\ UNCHANGED <<wifi, now, phase, server_base, authorized_bits, max_card_id, last_sync,
                   last_server_probe, server_last_ok, prefsOpen_, last_etag>>

\* NetworkTask, a cycle up to the fetch of syncFromServer(): update() found the
\* sync due, the guards and the first-time probe have run (what syncFromServer
\* does while the fetch is unanswered) and GET /api/sync is on its way
NetBegin(sc) ==
    /\ phase = "running"
    /\ ~last.main.inNet
    /\ last.main.serverReachable /\ last.main.authSyncRequested
    /\ Elapsed(last_sync) > SYNC_INTERVAL
    /\ LET Done(r) ==
               /\ "sync" \in Range(r.reqs)
               /\ sc # 200 => "status" \in Range(r.reqs)
               /\ last_server_probe' = r.last_server_probe
               /\ server_last_ok' = r.server_last_ok
               /\ last' = TaskStep("netBegin", r.reqs, FALSE,
                                   [last.main EXCEPT !.authSyncRequested = FALSE, !.inNet = TRUE])
       IN  Done(syncFromServer(sc, FetchPending, "none", "none"))
    /\ UNCHANGED <<wifi, now, phase, server_base, authorized_bits, max_card_id, last_sync,
                   prefsOpen_, allowHashes_, denyHashes_, last_etag, nvs, fs>>

\* fault: authSyncRequested is cleared after update() has returned
NetEnd_ClearsFlag(resp) ==
    /\ phase = "running"
    /\ last.main.inNet
    /\ SyncInputOk(resp)
    /\ LET m == last.main
           k == DrainCount(m.scanQueue, m.serverReachable)
           Done(r) ==
               /\ authorized_bits' = r.authorized_bits
               /\ max_card_id' = r.max_card_id
               /\ last_sync' = r.last_sync
               /\ allowHashes_' = r.allow
               /\ denyHashes_' = r.deny
               /\ last_etag' = r.last_etag
               /\ nvs' = r.nvs
               /\ fs' = r.fs
               /\ last' = CallStep("NetworkTask", postLastScan(k, m.serverReachable), r.ret, FALSE,
                                   [m EXCEPT !.scanQueue = SubSeq(@, k + 1, Len(@)),
                                             !.inNet = FALSE,
                                             !.authSyncRequested = FALSE])
       IN  Done(syncFromServerResume(resp, "none", "none"))
    /\ UNCHANGED <<wifi, now, phase, server_base, last_server_probe, server_last_ok,
                   prefsOpen_>>

\* NetworkTask, the cycle from the answer of the fetch on: the payload is
\* committed, then the queue is drained (main.cpp:575-608)
NetEnd(resp) ==
    /\ phase = "running"
    /\ last.main.inNet
    /\ SyncInputOk(resp)
    /\ LET m == last.main
           k == DrainCount(m.scanQueue, m.serverReachable)
           Done(r) ==
               /\ authorized_bits' = r.authorized_bits
               /\ max_card_id' = r.max_card_id
               /\ last_sync' = r.last_sync
               /\ allowHashes_' = r.allow
               /\ denyHashes_' = r.deny
               /\ last_etag' = r.last_etag
               /\ nvs' = r.nvs
               /\ fs' = r.fs
               /\ last' = CallStep("NetworkTask", postLastScan(k, m.serverReachable), r.ret, FALSE,
                                   [m EXCEPT !.scanQueue = SubSeq(@, k + 1, Len(@)),
                                             !.inNet = FALSE])
       IN  Done(syncFromServerResume(resp, "none", "none"))
    /\ UNCHANGED <<wifi, now, phase, server_base, last_server_probe, server_last_ok,
                   prefsOpen_>>

\* time passes (SpecRace), past the sync interval: every timer becomes due.
\* A request is answered or timed out within 2 s (AuthSync.cpp:212, :226, :326),
\* so no call is still waiting after a step of the clock.
TickRace ==
    /\ phase = "running"
    /\ last.main.inLoop = <<>> /\ ~last.main.inNet
    /\ now + RaceTickMs <= MaxNowRace
    /\ now' = now + RaceTickMs
    /\ last' = TaskStep("tick", <<>>, FALSE, [last.main EXCEPT !.due = TimerNames])
    /\ UNCHANGED <<wifi, phase, server_base, authorized_bits, max_card_id, last_sync,
                   last_server_probe, server_last_ok, prefsOpen_, allowHashes_,
                   denyHashes_, last_etag, nvs, fs>>

\* answers to GET /api/cards/<uid> in SpecRace: allowed, or no answer
CardResponsesRace ==
    { [code |-> 200, parse |-> TRUE, exists |-> "true", authorized |-> "true"], LookupPending }

\* answers to GET /api/sync in SpecRace: the credential is on the deny list, or no answer
SyncResponsesRace ==
    { [code |-> 200, etag |-> "", parse |-> TRUE,
       body |-> Body(9, HEX_0802, FALSE, <<>>, FALSE, <<>>, TRUE, <<UID_AB>>, FALSE, <<>>)],
      FetchPending }

NextRace ==
    \/ \E sc \in StatusCodes, resp \in SyncResponsesRace \cup {NoSyncResponse} :
            SetupTasks(sc, resp)
    \/ \E sc \in StatusCodes : ScanBegin(UID_AB, sc)
    \/ \E resp \in CardResponsesRace : ScanEnd(resp, <<200, TRUE>>)
    \/ \E sc \in StatusCodes, resp \in {NoCardResponse} : Scan(UID_AB, sc, resp, <<200, TRUE>>)
    \/ \E code \in StatusCodes : ServerCheckTimerCallback(code)
    \/ AuthSyncTimerCallback
    \/ \E sc \in StatusCodes : NetBegin(sc)
    \/ \E resp \in SyncResponsesRace : NetEnd(resp)
    \/ NetworkCycle(200, NoSyncResponse, FALSE)
    \/ TickRace
    \/ WifiChangeTasks

SpecRace == InitTasks /\ [][NextRace]_vars

(***************************************************************************)
(* SpecRecover and SpecConsist: the scaffold run for ever, with fairness.  *)
(* The clock advances until it has passed the sync interval; from then on  *)
(* a step of the clock moves every time stamp back instead (the code only  *)
(* compares elapsed times with 5, 10 and 60 s, and a stamp older than all  *)
(* three stays so).  WiFi is connected throughout.                         *)
(*                                                                         *)
(* SpecRecover: the probe of the boot-time sync may fail; after setup the  *)
(* authority answers every request.  No card is presented.                 *)
(* SpecConsist: the authority answers every request from boot on; it       *)
(* allows the credential "AB" until REVOKED_AT_MS and denies it from then  *)
(* on; the card is presented again and again.                              *)
(***************************************************************************)
LiveTickMs == 20000

\* the authority revokes the credential at this time of the device's clock
REVOKED_AT_MS == 30000

\* a time stamp moved back by one step of the clock, not below floor
Aged(stamp, floor) == IF stamp - LiveTickMs > floor THEN stamp - LiveTickMs ELSE floor

InitLive ==
    /\ wifi = TRUE
    /\ now = BOOT_DELAY_MS
    /\ phase = "begin"
    /\ server_base = SERVER_URL
    /\ Constructed
    /\ nvs = EmptyNvs
    /\ fs = EmptyFs
    /\ last = TaskStep("boot", <<>>, FALSE, Globals(FALSE, FALSE, FALSE, <<>>, 0, {}))

\* time passes: every timer becomes due.  last_server_probe = 0 means "never
\* probed" (AuthSync.cpp:202, :207, :303), so a stamp that is set stays above 0.
TickLive ==
    /\ phase = "running"
    /\ IF now <= SYNC_INTERVAL
       THEN /\ now' = now + LiveTickMs
            /\ last' = TaskStep("tick", <<>>, FALSE, [last.main EXCEPT !.due = TimerNames])
            /\ UNCHANGED <<last_sync, last_server_probe>>
       ELSE /\ now' = now
            /\ last_sync' = Aged(last_sync, 0)
            /\ last_server_probe' = IF last_server_probe = 0 THEN 0
                                    ELSE Aged(last_server_probe, 1)
            /\ last' = TaskStep("tick", <<>>, FALSE,
                                [last.main EXCEPT !.due = TimerNames,
                                                  !.lastEnrollPoll = Aged(@, 0)])
    /\ UNCHANGED <<wifi, phase, server_base, authorized_bits, max_card_id,
                   server_last_ok, prefsOpen_, allowHashes_,
                   denyHashes_, last_etag, nvs, fs>>

AuthorityAllows == now < REVOKED_AT_MS

\* the authority's answer to GET /api/cards/AB
CardAnswer ==
    [code |-> 200, parse |-> TRUE, exists |-> "true",
     authorized |-> IF AuthorityAllows THEN "true" ELSE "false"]

\* the authority's answers to GET /api/sync (spec section 6: max_id, bits and,
\* optionally, the allow and deny arrays): credential "AB" has id 3
SyncAnswers ==
    LET hex == IF AuthorityAllows THEN HEX_08 ELSE <<0, 0>>
        listed == IF AuthorityAllows
                  THEN Body(7, hex, TRUE, <<UID_AB>>, FALSE, <<>>, TRUE, <<>>, FALSE, <<>>)
                  ELSE Body(7, hex, TRUE, <<>>, FALSE, <<>>, TRUE, <<UID_AB>>, FALSE, <<>>)
        bare == Body(7, hex, FALSE, <<>>, FALSE, <<>>, FALSE, <<>>, FALSE, <<>>)
    IN  {[code |-> 200, etag |-> "", parse |-> TRUE, body |-> b] : b \in {listed, bare}}

\* the authority answers every request that is sent to it; a call that sends
\* none reads no answer
Answered(kind, resp, none) == (kind \in Range(last'.reqs)) = (resp # none)

SetupLive(codes) ==
    \E sc \in codes, resp \in SyncAnswers \cup {NoSyncResponse} :
        SetupTasks(sc, resp) /\ Answered("sync", resp, NoSyncResponse)

NetworkCycleLive ==
    \E resp \in SyncAnswers \cup {NoSyncResponse} :
        NetworkCycle(200, resp, FALSE) /\ Answered("sync", resp, NoSyncResponse)

\* the card is presented when the queue of unreported scans is empty
PresentCard ==
    /\ last.main.scanQueue = <<>>
    /\ \E resp \in {CardAnswer, NoCardResponse} :
          Scan(UID_AB, 200, resp, <<200, TRUE>>) /\ Answered("card", resp, NoCardResponse)

NextRecover ==
    \/ SetupLive(StatusCodes)
    \/ EnrollPoll(<<200, TRUE>>)
    \/ ServerCheckTimerCallback(200)
    \/ AuthSyncTimerCallback
    \/ DisplayTimerCallback
    \/ DisplayRefresh
    \/ NetworkCycleLive
    \/ TickLive

\* setup() runs once; loop() and the NetworkTask run for ever, the timers are
\* auto-reload (TimerHandle.cpp:11, :18, :25) and time passes
FairRecover ==
    /\ WF_vars(SetupLive(StatusCodes))
    /\ WF_vars(TickLive)
    /\ WF_vars(EnrollPoll(<<200, TRUE>>))
    /\ WF_vars(ServerCheckTimerCallback(200))
    /\ WF_vars(AuthSyncTimerCallback)
    /\ WF_vars(DisplayTimerCallback)
    /\ WF_vars(DisplayRefresh)
    /\ WF_vars(NetworkCycleLive)

SpecRecover == InitLive /\ [][NextRecover]_vars /\ FairRecover

NextConsist ==
    \/ SetupLive({200})
    \/ PresentCard
    \/ ServerCheckTimerCallback(200)
    \/ AuthSyncTimerCallback
    \/ NetworkCycleLive
    \/ TickLive

\* the card keeps being presented: the queue is emptied again and again
FairConsist ==
    /\ WF_vars(SetupLive({200}))
    /\ WF_vars(TickLive)
    /\ SF_vars(PresentCard)
    /\ WF_vars(ServerCheckTimerCallback(200))
    /\ WF_vars(AuthSyncTimerCallback)
    /\ WF_vars(NetworkCycleLive)

SpecConsist == InitLive /\ [][NextConsist]_vars /\ FairConsist

(***************************************************************************)
(* SpecSnap: the hash-cache snapshot on its own.  The instance holds any   *)
(* two sorted lists of fingerprints; it saves them, the file may be cut    *)
(* short or replaced by other bytes while the device is off, a fresh       *)
(* instance comes up, and loadAllowDenyFromFS runs.                        *)
(***************************************************************************)
SnapHashes == {hashUid(UID_AB), hashUid(UID_CD), hashUid(UID_EF)}

\* the sorted lists without duplicates over SnapHashes, as addKnownAuth
\* (AuthSync.cpp:473-494) and syncFromServer (:419-426) leave the lists
SnapLists ==
    {l \in UNION {[1..n -> SnapHashes] : n \in 0..2} :
        \A i \in 1..(Len(l) - 1) : Less(l[i], l[i + 1])}

\* allow_count / deny_count of a header that this program did not write; the
\* large ones are where 8 * count reaches the width of size_t
HeaderCounts == {0, 1, 2, UINT_MOD \div 16, UINT_MOD \div 8, UINT_MOD - 1}

\* a step: the operation, what it returned, how the load ended, the lists of
\* the last successful save, and whether the file is still the one it wrote
SnapStep(op, ret, outcome, saved, intact) ==
    [op |-> op, ret |-> ret, outcome |-> outcome, saved |-> saved, intact |-> intact]

InitSnap ==
    /\ wifi = FALSE
    /\ now = BOOT_DELAY_MS
    /\ phase = "running"
    /\ server_base = SERVER_URL
    /\ authorized_bits = ZeroBits
    /\ max_card_id = 0
    /\ last_sync = 0
    /\ last_server_probe = 0
    /\ server_last_ok = FALSE
    /\ prefsOpen_ = TRUE
    /\ allowHashes_ \in SnapLists
    /\ denyHashes_ \in SnapLists
    /\ last_etag = ""
    /\ nvs = EmptyNvs
    /\ fs = EmptyFs
    /\ last = SnapStep("boot", FALSE, "none", <<>>, FALSE)

\* saveAllowDenyToFS() on a healthy or failing file system
SaveSnapshot(fault) ==
    /\ phase = "running"
    /\ last.op = "boot"
    /\ fs' = saveAllowDenyToFS(fs, allowHashes_, denyHashes_, fault)
    /\ last' = IF fault = "none"
               THEN SnapStep("save", TRUE, "none", <<allowHashes_, denyHashes_>>, TRUE)
               ELSE SnapStep("save", FALSE, "none", last.saved,
                             last.intact /\ fs' = fs)
    /\ UNCHANGED <<wifi, now, phase, server_base, authorized_bits, max_card_id, last_sync,
                   last_server_probe, server_last_ok, prefsOpen_, allowHashes_,
                   denyHashes_, last_etag, nvs>>

\* the device is off: /allow_deny.bin ends up with size bytes, of which the
\* header declares an and dn fingerprints
DamageSnapshot(size, an, dn, words) ==
    /\ phase = "running"
    /\ last.op = "save"
    /\ size < 8 => an = 0 /\ dn = 0 /\ words = <<>>
    /\ size >= 8 => size = 8 + 8 * Len(words)
    /\ fs' = [fs EXCEPT !.allow_deny =
                [exists |-> TRUE,
                 data |-> [size |-> size, an |-> an, dn |-> dn, hashes |-> words]]]
    /\ last' = SnapStep("damage", FALSE, "none", last.saved, FALSE)
    /\ UNCHANGED <<wifi, now, phase, server_base, authorized_bits, max_card_id, last_sync,
                   last_server_probe, server_last_ok, prefsOpen_, allowHashes_,
                   denyHashes_, last_etag, nvs>>

\* a fresh instance: both lists empty (AuthSync.h), or lists learned since
RebootSnap(allow, deny) ==
    /\ phase = "running"
    /\ last.op \in {"save", "damage"}
    /\ allowHashes_' = allow
    /\ denyHashes_' = deny
    /\ last' = SnapStep("reboot", FALSE, "none", last.saved, last.intact)
    /\ UNCHANGED <<wifi, now, phase, server_base, authorized_bits, max_card_id, last_sync,
                   last_server_probe, server_last_ok, prefsOpen_, last_etag, nvs, fs>>

\* loadAllowDenyFromFS(); std::length_error ends the program
LoadSnapshot(mounted) ==
    /\ phase = "running"
    /\ last.op = "reboot"
    /\ LET outcome == loadAllowDenyOutcome(fs, mounted)
           ad == loadAllowDenyFromFS(fs, allowHashes_, denyHashes_, mounted)
       IN  /\ allowHashes_' = ad[1]
           /\ denyHashes_' = ad[2]
           /\ phase' = IF outcome = "abort" THEN "aborted" ELSE phase
           /\ last' = SnapStep("load", outcome = "loaded", outcome, last.saved, last.intact)
    /\ UNCHANGED <<wifi, now, server_base, authorized_bits, max_card_id, last_sync,
                   last_server_probe, server_last_ok, prefsOpen_, last_etag, nvs, fs>>

NextSnap ==
    \/ \E fault \in {"none", "mount", "rename"} : SaveSnapshot(fault)
    \/ \E size \in {4, 8, 16, 24}, an \in HeaderCounts, dn \in HeaderCounts,
          words \in {<<>>, <<hashUid(UID_AB)>>, <<hashUid(UID_AB), hashUid(UID_AB)>>} :
            DamageSnapshot(size, an, dn, words)
    \/ \E allow \in {<<>>, <<hashUid(UID_EF)>>}, deny \in {<<>>} : RebootSnap(allow, deny)
    \/ \E mounted \in BOOLEAN : LoadSnapshot(mounted)

SpecSnap == InitSnap /\ [][NextSnap]_vars

(***************************************************************************)
(* SpecBoot: power cycles.  Each boot runs begin(): the NVS namespace      *)
(* opens or does not, the snapshots are loaded, and syncFromServer runs.   *)
(* LittleFS is healthy.                                                    *)
(***************************************************************************)
\* a step: the operation, what it returned, and whether it saved the bitset
BootStep(op, ret, saved) == [op |-> op, ret |-> ret, saved |-> saved]

InitBoot ==
    /\ wifi = TRUE
    /\ now = BOOT_DELAY_MS
    /\ phase = "constructed"
    /\ server_base = SERVER_URL
    /\ Constructed
    /\ nvs = EmptyNvs
    /\ fs = EmptyFs
    /\ last = BootStep("boot", FALSE, FALSE)

\* power on, then begin() up to its syncFromServer (AuthSync.cpp:122-132) on the
\* fresh instance; nvsOk: prefs_.begin("auth") succeeds
BootLoad(nvsOk) ==
    /\ phase \in {"constructed", "running"}
    /\ LET tag == loadETagFromNVS(nvs, fs, nvsOk, "", <<>>, <<>>, TRUE)
           bits == loadBitsetFromFS(nvs, fs, nvsOk, ZeroBits, 0)
       IN  /\ prefsOpen_' = nvsOk
           /\ last_etag' = tag[1]
           /\ allowHashes_' = tag[2]
           /\ denyHashes_' = tag[3]
           /\ authorized_bits' = bits[1]
           /\ max_card_id' = bits[2]
    /\ now' = BOOT_DELAY_MS
    /\ last_sync' = 0
    /\ last_server_probe' = 0
    /\ server_last_ok' = FALSE
    /\ phase' = "begin"
    /\ last' = BootStep("load", TRUE, FALSE)
    /\ UNCHANGED <<wifi, server_base, nvs, fs>>

\* `return syncFromServer();` of begin(), AuthSync.cpp:133
BootSync(sc, resp) ==
    /\ phase = "begin"
    /\ SyncInputOk(resp)
    /\ LET Done(r) ==
               /\ SyncInputsUsed(r, sc, resp, "none", "none")
               /\ authorized_bits' = r.authorized_bits
               /\ max_card_id' = r.max_card_id
               /\ last_sync' = r.last_sync
               /\ last_server_probe' = r.last_server_probe
               /\ server_last_ok' = r.server_last_ok
               /\ allowHashes_' = r.allow
               /\ denyHashes_' = r.deny
               /\ last_etag' = r.last_etag
               /\ nvs' = r.nvs
               /\ fs' = r.fs
               /\ last' = BootStep("sync", r.ret, r.ret /\ resp.code = 200)
       IN  Done(syncFromServer(sc, resp, "none", "none"))
    /\ phase' = "running"
    /\ UNCHANGED <<wifi, now, server_base, prefsOpen_>>

NextBoot ==
    \/ \E nvsOk \in BOOLEAN : BootLoad(nvsOk)
    \/ \E sc \in StatusCodes, resp \in SyncResponsesSync \cup {NoSyncResponse} : BootSync(sc, resp)

SpecBoot == InitBoot /\ [][NextBoot]_vars

(***************************************************************************)
(* SpecCrash: one snapshot save, file-system step by file-system step,     *)
(* with a loss of power possible between any two steps.  LittleFS makes    *)
(* each single step (write and close of the temp file, remove, rename)     *)
(* atomic.  The final file holds a previous snapshot, or there is none.    *)
(***************************************************************************)
SnapshotFiles == {"bits", "allow_deny"}

\* bitsets of a previous and of the new sync: ids 3 / 3 and 9 of 0..9
CrashBits == {<<3, [i \in 0..(BufBytes - 1) |-> IF i = 0 THEN 8 ELSE 0]>>,
              <<9, [i \in 0..(BufBytes - 1) |-> IF i = 0 THEN 8 ELSE 2]>>}

\* /bits.bin as saveBitsetToFS writes it, AuthSync.cpp:580-581
BitsFile(bits, maxId) ==
    [exists |-> TRUE, data |-> [i \in 1..calcBitsetBytes(maxId) |-> ByteOf(bits, i - 1)]]

\* a step: the operation, the file being saved, the save's position (pc), the
\* final file before the save began (prev) and the content being saved (new)
CrashStep(op, file, pc, prev, new) ==
    [op |-> op, file |-> file, pc |-> pc, prev |-> prev, new |-> new]

InitCrash ==
    /\ wifi = FALSE
    /\ now = BOOT_DELAY_MS
    /\ phase = "running"
    /\ server_base = SERVER_URL
    /\ \E b \in CrashBits : max_card_id = b[1] /\ authorized_bits = b[2]
    /\ last_sync = 0
    /\ last_server_probe = 0
    /\ server_last_ok = FALSE
    /\ prefsOpen_ = TRUE
    /\ allowHashes_ \in SnapLists
    /\ denyHashes_ \in {<<>>, <<hashUid(UID_EF)>>}
    /\ last_etag = ""
    /\ nvs = EmptyNvs
    /\ \E pb \in CrashBits, pa \in {<<>>, <<hashUid(UID_CD)>>}, had \in BOOLEAN :
          fs = IF had
               THEN [bits |-> BitsFile(pb[2], pb[1]), allow_deny |-> AllowDenyFile(pa, <<>>)]
               ELSE EmptyFs
    /\ last = CrashStep("boot", "none", "idle", AbsentFile, AbsentFile)

\* open(tmp, FILE_WRITE), write, close: AuthSync.cpp:500-509 and :574-581
WriteTmp(file) ==
    /\ phase = "running"
    /\ last.pc = "idle" /\ last.op = "boot"
    /\ last' = CrashStep("writeTmp", file, "written", fs[file],
                         IF file = "bits" THEN BitsFile(authorized_bits, max_card_id)
                         ELSE AllowDenyFile(allowHashes_, denyHashes_))
    /\ UNCHANGED <<wifi, now, phase, server_base, authorized_bits, max_card_id, last_sync,
                   last_server_probe, server_last_ok, prefsOpen_, allowHashes_,
                   denyHashes_, last_etag, nvs, fs>>

\* LittleFS.remove(final): AuthSync.cpp:510 and :587
RemoveFinal ==
    /\ last.pc = "written"
    /\ fs' = [fs EXCEPT ![last.file] = AbsentFile]
    /\ last' = [last EXCEPT !.op = "removeFinal", !.pc = "removed"]
    /\ UNCHANGED <<wifi, now, phase, server_base, authorized_bits, max_card_id, last_sync,
                   last_server_probe, server_last_ok, prefsOpen_, allowHashes_,
                   denyHashes_, last_etag, nvs>>

\* LittleFS.rename(tmp, final) and the return: AuthSync.cpp:511-515 and :588-594
RenameTmp ==
    /\ last.pc = "removed"
    /\ fs' = [fs EXCEPT ![last.file] = last.new]
    /\ nvs' = IF last.file = "bits" /\ prefsOpen_ THEN [nvs EXCEPT !.max_id = max_card_id]
              ELSE nvs
    /\ last' = [last EXCEPT !.op = "renameTmp", !.pc = "idle"]
    /\ UNCHANGED <<wifi, now, phase, server_base, authorized_bits, max_card_id, last_sync,
                   last_server_probe, server_last_ok, prefsOpen_, allowHashes_,
                   denyHashes_, last_etag>>

\* power is lost and comes back: RAM starts over, flash stays as it is
PowerLoss ==
    /\ last.op \in {"writeTmp", "removeFinal", "renameTmp"}
    /\ authorized_bits' = ZeroBits
    /\ max_card_id' = 0
    /\ allowHashes_' = <<>>
    /\ denyHashes_' = <<>>
    /\ prefsOpen_' = FALSE
    /\ phase' = "constructed"
    /\ last' = [last EXCEPT !.op = "powerLoss"]
    /\ UNCHANGED <<wifi, now, server_base, last_sync, last_server_probe, server_last_ok,
                   last_etag, nvs, fs>>

NextCrash ==
    \/ \E file \in SnapshotFiles : WriteTmp(file)
    \/ RemoveFinal
    \/ RenameTmp
    \/ PowerLoss

SpecCrash == InitCrash /\ [][NextCrash]_vars

(***************************************************************************)
(* SpecHash: hashUid as a pure function, applied to every pair of byte     *)
(* strings of up to MaxUidLen bytes over space, 'a', 'A', and to " ab "    *)
(* and "AB".                                                               *)
(***************************************************************************)
MaxUidLen == 3

HashAlphabet == {32, 97, 65}

HashInputs ==
    UNION {[1..n -> HashAlphabet] : n \in 0..MaxUidLen} \cup {UID_ab, UID_AB}

HashStep(op, s, t, hs, ht) == [op |-> op, s |-> s, t |-> t, hs |-> hs, ht |-> ht]

InitHash ==
    /\ wifi = FALSE
    /\ now = BOOT_DELAY_MS
    /\ phase = "running"
    /\ server_base = SERVER_URL
    /\ authorized_bits = ZeroBits
    /\ max_card_id = 0
    /\ last_sync = 0
    /\ last_server_probe = 0
    /\ server_last_ok = FALSE
    /\ prefsOpen_ = FALSE
    /\ allowHashes_ = <<>>
    /\ denyHashes_ = <<>>
    /\ last_etag = ""
    /\ nvs = EmptyNvs
    /\ fs = EmptyFs
    /\ \E s \in HashInputs, t \in HashInputs :
          last = HashStep("input", s, t, FNV_OFFSET, FNV_OFFSET)

\* HashUtils::hashUid on each of the two strings, HashUtils.cpp:14-19
HashUid ==
    /\ last.op = "input"
    /\ last' = HashStep("hashUid", last.s, last.t, hashUid(last.s), hashUid(last.t))
    /\ UNCHANGED <<wifi, now, phase, server_base, authorized_bits, max_card_id, last_sync,
                   last_server_probe, server_last_ok, prefsOpen_, allowHashes_,
                   denyHashes_, last_etag, nvs, fs>>

NextHash == HashUid

SpecHash == InitHash /\ [][NextHash]_vars

(***************************************************************************)
(* SpecFlag: the auth-sync timer against the NetworkTask.  The timer task  *)
(* sets authSyncRequested (main.cpp:548) while the NetworkTask is anywhere *)
(* in its loop, also inside update() waiting for GET /api/sync.  The       *)
(* NetworkTask never ends (for (;;), main.cpp:569) and every request it    *)
(* waits for ends by its timeout, hence the weak fairness on its steps.    *)
(***************************************************************************)
FlagTickMs == 30500

MaxNowFlag == 92000

\* time passes between two passes of the NetworkTask: the timers become due
TickFlag ==
    /\ phase = "running"
    /\ ~last.main.inNet
    /\ now + FlagTickMs <= MaxNowFlag
    /\ now' = now + FlagTickMs
    /\ last' = TaskStep("tick", <<>>, FALSE, [last.main EXCEPT !.due = TimerNames])
    /\ UNCHANGED <<wifi, phase, server_base, authorized_bits, max_card_id, last_sync,
                   last_server_probe, server_last_ok, prefsOpen_, allowHashes_,
                   denyHashes_, last_etag, nvs, fs>>

NextFlag ==
    \/ \E sc \in StatusCodes, resp \in SyncResponsesRace \cup {NoSyncResponse} :
            SetupTasks(sc, resp)
    \/ \E code \in StatusCodes : ServerCheckTimerCallback(code)
    \/ AuthSyncTimerCallback
    \/ \E sc \in StatusCodes : NetBegin(sc)
    \/ \E resp \in SyncResponsesRace : NetEnd(resp)
    \/ NetworkCycle(200, NoSyncResponse, FALSE)
    \/ TickFlag

\* one step of the NetworkTask
WorkerStep ==
    \/ \E sc \in StatusCodes : NetBegin(sc)
    \/ \E resp \in SyncResponsesRace : NetEnd(resp)
    \/ NetworkCycle(200, NoSyncResponse, FALSE)

SpecFlag == InitTasks /\ [][NextFlag]_vars /\ WF_vars(WorkerStep)

(***************************************************************************)
(* SpecDrain: the drain loop of the NetworkTask, item by item.  Each       *)
(* postLastScan waits for its POST (timeout 1500 ms, main.cpp:465), so     *)
(* loop() on the other core and the timer task run between the test of     *)
(* serverReachable at main.cpp:580 and the tests inside postLastScan       *)
(* (main.cpp:454-459) of every item.  main.drainLeft is the number of      *)
(* passes the for loop of main.cpp:581 has left; 0: not in the loop.       *)
(***************************************************************************)
DrainTickMs == 5500

MaxNowDrain == 6000

InitDrain ==
    /\ wifi = TRUE
    /\ now = BOOT_DELAY_MS
    /\ phase = "begin"
    /\ server_base = SERVER_URL
    /\ Constructed
    /\ nvs = EmptyNvs
    /\ fs = EmptyFs
    /\ last = TaskStep("boot", <<>>, FALSE,
                       Globals(FALSE, FALSE, FALSE, <<>>, 0, {}) @@ [drainLeft |-> 0])

\* the timers become due, also while a POST is waited for
TickDrain ==
    /\ phase = "running"
    /\ now + DrainTickMs <= MaxNowDrain
    /\ now' = now + DrainTickMs
    /\ last' = TaskStep("tick", <<>>, FALSE, [last.main EXCEPT !.due = TimerNames])
    /\ UNCHANGED <<wifi, phase, server_base, authorized_bits, max_card_id, last_sync,
                   last_server_probe, server_last_ok, prefsOpen_, allowHashes_,
                   denyHashes_, last_etag, nvs, fs>>

\* NetworkTask, main.cpp:573-581, with no sync requested: the test of
\* serverReachable that admits the drain loop
DrainBegin ==
    /\ phase = "running"
    /\ last.main.drainLeft = 0
    /\ ~last.main.authSyncRequested
    /\ last' = TaskStep("drainBegin", <<>>, FALSE,
                        [last.main EXCEPT !.drainLeft = IF last.main.serverReachable
                                                        THEN DRAIN_PER_CYCLE ELSE 0])
    /\ UNCHANGED <<wifi, now, phase, server_base, authorized_bits, max_card_id, last_sync,
                   last_server_probe, server_last_ok, prefsOpen_, allowHashes_,
                   denyHashes_, last_etag, nvs, fs>>

\* one pass of the for loop, main.cpp:582-607: xQueueReceive, then postLastScan
\* with its own tests (main.cpp:454-463); an empty queue ends the loop
DrainItem(enrolled) ==
    /\ phase = "running"
    /\ last.main.drainLeft > 0
    /\ LET m == last.main
           posts == postLastScan(1, m.serverReachable)
       IN  IF m.scanQueue = <<>>
           THEN /\ ~enrolled
                /\ last' = TaskStep("drainItem", <<>>, FALSE, [m EXCEPT !.drainLeft = 0])
           ELSE /\ enrolled => posts # <<>>
                /\ last' = TaskStep("drainItem", posts, FALSE,
                                    [m EXCEPT !.scanQueue = Tail(@),
                                              !.displayUpdateRequested = @ \/ enrolled,
                                              !.drainLeft = @ - 1])
    /\ UNCHANGED <<wifi, now, phase, server_base, authorized_bits, max_card_id, last_sync,
                   last_server_probe, server_last_ok, prefsOpen_, allowHashes_,
                   denyHashes_, last_etag, nvs, fs>>

NextDrain ==
    \/ \E sc \in StatusCodes, resp \in SyncResponsesProbe \cup {NoSyncResponse} :
            SetupTasks(sc, resp)
    \/ \E sc \in StatusCodes, resp \in CardResponsesQueue \cup {NoCardResponse},
          answer \in EnrollAnswersTasks :
            Scan(UID_AB, sc, resp, answer)
    \/ \E code \in StatusCodes : ServerCheckTimerCallback(code)
    \/ DrainBegin
    \/ \E enrolled \in BOOLEAN : DrainItem(enrolled)
    \/ TickDrain

SpecDrain == InitDrain /\ [][NextDrain]_vars

(***************************************************************************)
(* Properties.                                                             *)
(***************************************************************************)
InAllow(h) == h \in Range(allowHashes_)

InDeny(h) == h \in Range(denyHashes_)

\* the step just taken was a call of isAuthorized / syncFromServer
Decided == last'.op = "isAuthorized"

Synced == last'.op = "syncFromServer"

\* the fingerprint of the identifier that call was about
Asked == UidHash[last'.uid]

\* the authority answered the call's lookup definitively: 200, JSON, exists = true
Definitive(l) ==
    /\ "card" \in Range(l.reqs)
    /\ l.card.code = 200
    /\ l.card.parse
    /\ l.card.exists = "true"

\* ... and what it answered (an absent "authorized" reads as false, AuthSync.cpp:243)
Granted(l) == l.card.authorized = "true"

\* C1: fail-closed default.  Whenever isAuthorized is called for a fingerprint
\* that is in neither cache and the authority gives no definitive answer (no
\* WiFi, no server base, backoff, failed probe, lookup not 200, unparsable
\* body, exists not true), the call returns false.
C1_FailClosed ==
    [][(Decided /\ ~InAllow(Asked) /\ ~InDeny(Asked) /\ ~Definitive(last'))
            => last'.ret = FALSE]_vars

C1_Witness ==
    /\ last.op = "isAuthorized"
    /\ last.reqs = <<"status", "card">>
    /\ last.card.code = 200 /\ last.card.parse /\ last.card.exists = "false"
    /\ ~InAllow(UidHash[last.uid]) /\ ~InDeny(UidHash[last.uid])
    /\ last.ret = FALSE

\* C2: an unknown credential is never granted by default.  isAuthorized
\* returns true only if the fingerprint was in the allow cache and not in the
\* deny cache when called, or the authority answered this call's lookup with
\* 200, exists = true and authorized = true.
C2_GrantOnlyKnown ==
    [][(Decided /\ last'.ret)
            => \/ InAllow(Asked) /\ ~InDeny(Asked)
               \/ Definitive(last') /\ Granted(last')]_vars

C2_Witness ==
    /\ last.op = "isAuthorized"
    /\ last.ret
    /\ Definitive(last) /\ Granted(last)

\* C3: deny precedence.  If the fingerprint is in the deny cache, isAuthorized
\* returns false and sends no request, whether or not the fingerprint is also
\* in the allow cache and whatever the authority would answer.
C3_DenyPrecedence ==
    [][(Decided /\ InDeny(Asked)) => (last'.ret = FALSE /\ last'.reqs = <<>>)]_vars

C3_Witness ==
    /\ last.op = "isAuthorized"
    /\ InDeny(UidHash[last.uid]) /\ InAllow(UidHash[last.uid])
    /\ wifi /\ server_base # "" /\ server_last_ok
    /\ last.ret = FALSE /\ last.reqs = <<>>

\* a probe of /api/status failed in the step just taken
ProbeFailed ==
    \/ last'.op \in {"isAuthorized", "syncFromServer"}
         /\ "status" \in Range(last'.reqs) /\ ~server_last_ok'
    \/ last'.op = "setServerProbeResult" /\ ~server_last_ok'

\* C4: a cached allow works offline.  If the fingerprint is in the allow cache
\* and not in the deny cache, isAuthorized returns true and sends no request,
\* whatever WiFi, the cached reachability and the backoff are; and a failed
\* sync or a failed probe removes nothing from the allow cache.
C4_CachedAllowOffline ==
    [][/\ (Decided /\ InAllow(Asked) /\ ~InDeny(Asked))
            => (last'.ret = TRUE /\ last'.reqs = <<>>)
       /\ ((Synced /\ ~last'.ret) \/ ProbeFailed)
            => Range(allowHashes_) \subseteq Range(allowHashes_')]_vars

C4_Witness ==
    /\ last.op = "isAuthorized"
    /\ InAllow(UidHash[last.uid]) /\ ~InDeny(UidHash[last.uid])
    /\ ~wifi /\ ~server_last_ok /\ last_server_probe # 0
    /\ last.ret = TRUE /\ last.reqs = <<>>

\* C5: learn on a definitive answer.  When isAuthorized misses both caches and
\* the lookup answers 200, exists = true, authorized = a, the call returns a
\* and leaves the fingerprint in the allow cache iff a and in the deny cache
\* iff not a.  A fingerprint held by a cache keeps its place in every step but
\* a successful sync and a reboot, and a call for a fingerprint held by exactly
\* one cache returns that cache's verdict and sends no request: so a following
\* call returns a without any network request.
C5_LearnDefinitive ==
    [][/\ (Decided /\ ~InAllow(Asked) /\ ~InDeny(Asked) /\ Definitive(last'))
            => /\ last'.ret = Granted(last')
               /\ (Asked \in Range(allowHashes_')) = Granted(last')
               /\ (Asked \in Range(denyHashes_')) = ~Granted(last')
       /\ ~(Synced /\ last'.ret) /\ last'.op # "boot"
            => \A h \in Range(allowHashes_) \cup Range(denyHashes_) :
                   /\ (h \in Range(allowHashes_')) = InAllow(h)
                   /\ (h \in Range(denyHashes_')) = InDeny(h)
       /\ (Decided /\ InAllow(Asked) # InDeny(Asked))
            => (last'.ret = InAllow(Asked) /\ last'.reqs = <<>>)]_vars

C5_Witness ==
    /\ last.op = "isAuthorized"
    /\ Definitive(last) /\ ~Granted(last)
    /\ last.ret = FALSE
    /\ InDeny(UidHash[last.uid]) /\ ~InAllow(UidHash[last.uid])
    /\ allowHashes_ # <<>>

\* C6: unknown is never conflated with denied by the lookup.  A call whose
\* lookup is inconclusive leaves both hash caches as they were, and a call
\* adds a fingerprint to the deny cache only when the authority answered 200,
\* exists = true and authorized = false, and then only the fingerprint asked.
C6_UnknownNotDenied ==
    [][Decided
            => /\ ~Definitive(last')
                    => (allowHashes_' = allowHashes_ /\ denyHashes_' = denyHashes_)
               /\ \A h \in Range(denyHashes_') \ Range(denyHashes_) :
                      h = Asked /\ Definitive(last') /\ ~Granted(last')]_vars

C6_Witness ==
    /\ last.op = "isAuthorized"
    /\ last.reqs = <<"card">>
    /\ last.card.code = 200 /\ last.card.parse /\ last.card.exists = "absent"
    /\ last.card.authorized = "true"
    /\ ~InAllow(UidHash[last.uid]) /\ ~InDeny(UidHash[last.uid])
    /\ denyHashes_ # <<>>

\* C7: cache disjointness under learn.  From empty caches, after any sequence
\* of addKnownAuth calls no fingerprint is in both lists, both lists are sorted
\* ascending without duplicates, and every learned fingerprint is in exactly
\* the list of its most recent learn.
C7_LearnDisjointSorted ==
    /\ Range(allowHashes_) \cap Range(denyHashes_) = {}
    /\ IsStrictlySorted(allowHashes_)
    /\ IsStrictlySorted(denyHashes_)
    /\ \A h \in LearnHashes :
          /\ InAllow(h) = (last.recent[h] = "allow")
          /\ InDeny(h) = (last.recent[h] = "deny")

C7_Witness ==
    /\ last.op = "addKnownAuth"
    /\ last.prev = "allow" /\ ~last.allowed
    /\ Len(denyHashes_) >= 2
    /\ Len(allowHashes_) >= 1

\* C8: the allow set and the deny set are disjoint in every reachable state.
C8_Disjoint == Range(allowHashes_) \cap Range(denyHashes_) = {}

\* the identifiers a sync body lists to allow / to deny
BodyAllow(b) ==
    Range(IF b.hasAllow THEN b.allow ELSE <<>>) \cup Range(IF b.hasAllowUids THEN b.allow_uids ELSE <<>>)

BodyDeny(b) ==
    Range(IF b.hasDeny THEN b.deny ELSE <<>>) \cup Range(IF b.hasDenyUids THEN b.deny_uids ELSE <<>>)

\* the identifiers a body lists on both sides (same fingerprint)
BodyTies(b) == {u \in BodyAllow(b) : \E v \in BodyDeny(b) : UidHash[u] = UidHash[v]}

SyncApplied == last.op = "syncFromServer" /\ last.ret /\ last.sync.code = 200

\* C9: deny wins ties in a bulk sync.  After a successful full sync whose
\* payload lists an identifier in both its allow and its deny array,
\* isAuthorized returns false for that identifier, whatever the authority
\* answers.
C9_DenyWinsTies ==
    SyncApplied =>
        \A u \in BodyTies(last.sync.body) :
            \A sc \in StatusCodes, resp \in CardResponses :
                isAuthorized(u, sc, resp, "none").ret = FALSE

C9_Witness ==
    /\ SyncApplied
    /\ BodyTies(last.sync.body) # {}
    /\ wifi /\ server_last_ok

\* C10: a failed sync never changes state.  Whenever syncFromServer returns
\* false, the bitset, max_card_id, the allow list and the deny list are what
\* they were before the call.
C10_FailedSyncNoChange ==
    [][(Synced /\ ~last'.ret)
            => UNCHANGED <<authorized_bits, max_card_id, allowHashes_, denyHashes_>>]_vars

\* bytes a bitset for ids 0..m takes: ceil((m + 1) / 8)
NeededBytes(m) == (m + 8) \div 8

\* the hex string of a body decodes to fewer bytes than its max_id needs
Truncated(b) == Len(b.bits) \div 2 < NeededBytes(b.max_id)

\* bit id of the payload: bit (id & 7) of byte (id >> 3)
PayloadBit(b, id) ==
    BitOf(16 * b.bits[2 * (id \div 8) + 1] + b.bits[2 * (id \div 8) + 2], id % 8) # 0

\* the step just taken was a syncFromServer that fetched a parsed 200 payload
FetchedFull ==
    /\ Synced
    /\ "sync" \in Range(last'.reqs)
    /\ last'.sync.code = 200
    /\ last'.sync.parse

\* C11: a truncated bitset payload is rejected.  A sync that receives a 200
\* payload whose bits decode to fewer than ceil((max_id + 1) / 8) bytes
\* returns false and leaves the bitset and max_card_id as they were.
C11_TruncatedRejected ==
    [][(FetchedFull /\ Truncated(last'.sync.body))
            => (last'.ret = FALSE /\ UNCHANGED <<authorized_bits, max_card_id>>)]_vars

\* C12: a successful full sync installs exactly the server's bitset.  After a
\* sync that returned true on a 200 payload with enough bits, max_card_id is
\* the payload's max_id and isBitSet(id) is the payload's bit for every id in
\* 0..max_id, whatever max_card_id was before.
C12_SyncInstallsBits ==
    (SyncApplied /\ last.sync.parse /\ ~Truncated(last.sync.body))
        => /\ max_card_id = last.sync.body.max_id
           /\ \A id \in 0..last.sync.body.max_id :
                  isBitSet(id) = PayloadBit(last.sync.body, id)

\* C13: conditional sync.  A sync answered 304 returns true and sets
\* last_sync; the bitset, max_card_id, both hash lists, the version tag, NVS
\* and the files stay as they were.
C13_NotModified ==
    [][(Synced /\ "sync" \in Range(last'.reqs) /\ last'.sync.code = 304)
            => /\ last'.ret = TRUE
               /\ last_sync' = now
               /\ UNCHANGED <<authorized_bits, max_card_id, allowHashes_, denyHashes_,
                              last_etag, nvs, fs>>]_vars

C13_Witness ==
    /\ last.op = "syncFromServer"
    /\ last.sync.code = 304
    /\ last.ret
    /\ last_etag = "v1" /\ nvs.bitset_etag = "v1"
    /\ max_card_id = 3
    /\ allowHashes_ # <<>> /\ denyHashes_ # <<>>
    /\ fs.bits.exists /\ fs.allow_deny.exists
    /\ last_sync = now /\ now > SYNC_INTERVAL

\* C14: the version tag changes only on a successful full sync.  A
\* syncFromServer call that returns false changes neither last_etag nor the
\* persisted bitset_etag, so the stored tag names the bitset that is held.
C14_TagOnlyOnSuccess ==
    [][(Synced /\ ~last'.ret)
            => (last_etag' = last_etag /\ nvs'.bitset_etag = nvs.bitset_etag)]_vars

\* C15: bitset capacity.  In every reachable state, after any sync, any
\* snapshot load and any TEST_setMaxCardId(n), the bitset for max_card_id fits
\* the static buffer: calcBitsetBytes(max_card_id) <= MAX_SAFE_BYTES.
C15_Capacity == calcBitsetBytes(max_card_id) <= MAX_SAFE_BYTES

\* the argument of the accessor call just made
BitArg == last'.uid[1]

\* C16: bounds-checked bit accessors.  isBitSet is false for every id above
\* max_card_id; setBit and clearBit of such an id leave the bitset as it was;
\* for an id up to max_card_id, setBit makes isBitSet(id) true and clearBit
\* makes it false, and no other id's bit changes.
C16_BoundedAccessors ==
    [][/\ \A id \in AllIds : id > max_card_id => ~isBitSet(id)
       /\ last'.op \in {"setBit", "clearBit"}
            => IF BitArg > max_card_id
               THEN authorized_bits' = authorized_bits
               ELSE /\ isBitSetIn(authorized_bits', max_card_id', BitArg) = (last'.op = "setBit")
                    /\ \A id \in AllIds \ {BitArg} :
                          isBitSetIn(authorized_bits', max_card_id', id) = isBitSet(id)]_vars

\* an out-of-range setBit met a buffer that still holds a bit of that id from
\* a larger bitset, and left it alone
C16_Witness ==
    /\ last.op = "setBit"
    /\ last.uid = <<10>>
    /\ max_card_id = 3
    /\ ByteOf(authorized_bits, 1) # 0
    /\ ~isBitSet(10) /\ ~isBitSet(9) /\ isBitSet(3)

\* C17: calcBitsetBytes(maxId) is ceil((maxId + 1) / 8) when maxId + 1 and the
\* +7 rounding fit the unsigned width and 0 when they overflow, so that
\* getMemoryUsed() = (getCardCount() + 7) / 8 in unsigned arithmetic; 375
\* bytes for max id 2999.
C17_CalcBitsetBytes ==
    last.op = "getMemoryUsed" =>
        /\ last.bytes = IF max_card_id + 8 > UINT_MOD - 1 THEN 0 ELSE NeededBytes(max_card_id)
        /\ last.bytes = ((last.count + 7) % UINT_MOD) \div 8
        /\ max_card_id = 2999 => last.bytes = 375

C17_Witness ==
    /\ last.op = "getMemoryUsed"
    /\ max_card_id = UINT_MOD - 8
    /\ last.count = UINT_MOD - 7
    /\ last.bytes = 0

\* C18: backoff gating.  While server_last_ok is false, last_server_probe is
\* not 0 and less than BACKOFF_MS have passed since it, syncFromServer and
\* getCardAuthFromServer send no request and return false, whatever the
\* authority would answer.
C18_BackoffGating ==
    BackoffActive =>
        /\ \A sc \in StatusCodes, resp \in SyncResponsesSync :
              LET r == syncFromServer(sc, resp, "none", "none")
              IN  r.reqs = <<>> /\ r.ret = FALSE
        /\ \A sc \in StatusCodes, resp \in CardResponses :
              LET g == getCardAuthFromServer(sc, resp)
              IN  g.reqs = <<>> /\ g.ret = FALSE

\* a scan of an unknown credential, online, inside the backoff window but past
\* the probe throttle: the only probe of the step is updateEnrollStatus's
C18_Witness ==
    /\ BackoffActive
    /\ Online
    /\ Elapsed(last_server_probe) > PROBE_THROTTLE_MS
    /\ allowHashes_ = <<>> /\ denyHashes_ = <<>>
    /\ last.op = "scan"
    /\ last.probes = <<now>>

\* the step just taken sent a sync fetch or a lookup that failed in transport
\* or with a status that is not 2xx
FetchFailed ==
    \/ Synced /\ "sync" \in Range(last'.reqs) /\ last'.sync.code \notin {200, 304}
    \/ Decided /\ "card" \in Range(last'.reqs) /\ last'.card.code # 200

\* C19: transient failures trigger backoff.  After a sync fetch or a lookup
\* that failed with a transport error or a non-2xx status the engine holds the
\* authority unreachable and is inside the backoff window.
C19_FailureTriggersBackoff ==
    [][FetchFailed
            => /\ server_last_ok' = FALSE
               /\ last_server_probe' # 0
               /\ now' - last_server_probe' < BACKOFF_MS]_vars

\* C20: no redundant reachability probes.  Any two consecutive requests of
\* /api/status, whoever sends them, are at least the throttle window apart.
C20_NoRedundantProbes ==
    \A i \in 1..Len(last.probes) :
        LET prev == IF i = 1 THEN last.before ELSE last.probes[i - 1]
        IN  prev = -1 \/ last.probes[i] - prev >= PROBE_THROTTLE_MS

\* the steps taken by the timer task, and those taken by loop()
TimerOps == {"serverCheckTimerCallback", "authSyncTimerCallback", "displayTimerCallback"}

LoopOps == {"scan", "display", "enrollPoll"}

\* C21: no timer callback sends an HTTP request (or blocks otherwise): each
\* only sets a flag
C21_TimersDoNotBlock == last.op \in TimerOps => last.reqs = <<>>

\* C22: handling a scan, loop() sends at most one HTTP request, the lookup of
\* the credential, and none when the cached reachability says the authority is
\* down; no other block of loop() sends any: probes, polls, reports and syncs
\* belong to the NetworkTask
C22_ForegroundNetworkUse ==
    [][ /\ last'.op \in LoopOps => last'.reqs \in {<<>>, <<"card">>}
        /\ last'.op \in LoopOps \ {"scan"} => last'.reqs = <<>>
        /\ last'.op = "scan" /\ ~server_last_ok /\ last_server_probe # 0 => last'.reqs = <<>>
      ]_vars

\* what a step wrote: the hash caches, the bitset with max_card_id, the
\* reachability state of the engine
CachesWritten == <<allowHashes_, denyHashes_>>' # <<allowHashes_, denyHashes_>>

BitsWritten == <<authorized_bits, max_card_id>>' # <<authorized_bits, max_card_id>>

ProbeWritten == <<server_last_ok, last_server_probe>>' # <<server_last_ok, last_server_probe>>

\* the context that took the step
ByLoop == last'.op \in {"scanBegin", "scan", "display", "enrollPoll"}

ByNet == last'.op \in {"netBegin", "NetworkTask"}

\* loop() is inside isAuthorized, between its cache searches and its learn;
\* the NetworkTask is inside syncFromServer, between its guards and its commit
LoopMidCall == last.main.inLoop # <<>>

NetMidCall == last.main.inNet

\* C23: no context writes the hash caches, the bitset, max_card_id or the
\* reachability state while another context is in the middle of a call that
\* reads or writes the same data
C23_NoConcurrentMutation ==
    [][ /\ LoopMidCall /\ ~ByLoop => ~(CachesWritten \/ ProbeWritten)
        /\ NetMidCall /\ ~ByNet => ~(CachesWritten \/ BitsWritten \/ ProbeWritten) ]_vars

\* a full sync made by the NetworkTask has just returned true
SyncCompleted == last.op = "NetworkTask" /\ last.ret

\* C26: with WiFi up and the authority answering every request, however the
\* boot-time probe went, setup is followed by a full sync of the NetworkTask
\* that returns true, without a reboot and without a card being presented
C26_RecoversWithoutReboot == (last.op = "setup") ~> SyncCompleted

\* C27: from some time after the authority changed its decision for a
\* credential, every isAuthorized for it returns the authority's decision
C27_EventuallyConsistent == <>[](last.op = "scan" => last.ret = AuthorityAllows)

\* the scan queue before and after a step
QueueBefore == last.main.scanQueue

QueueAfter == last'.main.scanQueue

\* C24: the scan queue never holds more than 10 items; a scan that finds it
\* full is not queued (xQueueSend refuses at once) and the queued items stay
\* (the queue is empty at boot, so every step ending within the bound keeps every
\* reachable state within it)
C24_BoundedQueue ==
    [][ /\ Len(QueueAfter) <= SCAN_QUEUE_LEN
        /\ last'.op = "scan" /\ Len(QueueBefore) = SCAN_QUEUE_LEN
              => QueueAfter = QueueBefore /\ ~last'.sent ]_vars

\* a scan was dropped at a full queue
C24_Witness ==
    /\ last.op = "scan"
    /\ ~last.sent
    /\ Len(last.main.scanQueue) = SCAN_QUEUE_LEN
    /\ Range(last.main.scanQueue) = QueueUids

\* C25: a cycle of the NetworkTask removes the k oldest items of the queue,
\* k <= 3, and none when it finds serverReachable false
C25_BoundedDrain ==
    [][ last'.op = "NetworkTask"
          => \E k \in 0..DRAIN_PER_CYCLE :
                /\ k <= Len(QueueBefore)
                /\ QueueAfter = SubSeq(QueueBefore, k + 1, Len(QueueBefore))
                /\ ~last.main.serverReachable => k = 0 ]_vars

\* a cycle took its three items and left some behind, in a queue of both credentials
C25_Witness ==
    /\ last.op = "NetworkTask"
    /\ Len(last.reqs) = DRAIN_PER_CYCLE
    /\ Range(last.main.scanQueue) = QueueUids
    /\ Len(last.main.scanQueue) = SCAN_QUEUE_LEN - DRAIN_PER_CYCLE

\* C28: a successful saveAllowDenyToFS writes the two counts and then the
\* allow and the deny fingerprints, and a loadAllowDenyFromFS of that file on
\* a fresh instance returns true with both lists equal to the saved ones
C28_HashSnapshotRoundTrip ==
    [][ /\ last'.op = "save" /\ last'.ret
            => LET d == fs'.allow_deny.data
               IN  /\ fs'.allow_deny.exists
                   /\ d.an = Len(allowHashes_) /\ d.dn = Len(denyHashes_)
                   /\ d.size = 8 + 8 * d.an + 8 * d.dn
                   /\ SubSeq(d.hashes, 1, d.an) = allowHashes_
                   /\ SubSeq(d.hashes, d.an + 1, d.an + d.dn) = denyHashes_
                   /\ Len(d.hashes) = d.an + d.dn
        /\ last'.op = "load" /\ last.intact /\ last'.outcome # "no_fs"
            => last'.ret /\ <<allowHashes_', denyHashes_'>> = last.saved ]_vars

C28_Witness ==
    /\ last.op = "load" /\ last.ret /\ last.intact
    /\ <<allowHashes_, denyHashes_>> = last.saved
    /\ Len(allowHashes_) = 2 /\ Len(denyHashes_) = 1

\* C29: after a sync that saved the bitset, a power cycle and the load of
\* begin() restore the same max_card_id and the same isBitSet(id) for every
\* id, whether or not NVS opened on the boot that saved or the boot that loads
C29_BitsetSnapshotRoundTrip ==
    [][ last.op = "sync" /\ last.saved /\ last'.op = "load"
            => /\ max_card_id' = max_card_id
               /\ \A id \in AllIds :
                     isBitSetIn(authorized_bits', max_card_id', id) = isBitSet(id) ]_vars

\* the file is shorter than its header declares (sum computed without wrap)
ShortOfHeader(f) ==
    /\ f.exists
    /\ \/ f.data.size < 8
       \/ f.data.size < 8 + 8 * f.data.an + 8 * f.data.dn

\* C30: loadAllowDenyFromFS of a file shorter than 8 + 8*allow_count +
\* 8*deny_count, for every header, returns false and leaves both lists as they were
C30_TruncatedSnapshotRejected ==
    [][ last'.op = "load" /\ ShortOfHeader(fs.allow_deny)
            => /\ last'.outcome \in {"no_fs", "short_header", "truncated"}
               /\ allowHashes_' = allowHashes_
               /\ denyHashes_' = denyHashes_ ]_vars

\* C31: after a loss of power at any point of saveBitsetToFS or
\* saveAllowDenyToFS the final file is the complete previous snapshot or the
\* complete new one: never missing where there was one, never partial
C31_CrashSafeSnapshot ==
    last.op = "powerLoss" => fs[last.file] \in {last.prev, last.new}

\* what begin() has in memory agrees with what flash holds: the tag of the
\* opened key-value store, the fingerprint lists of /allow_deny.bin and the
\* bytes of /bits.bin
TagLoaded ==
    prefsOpen_ => last_etag = (IF nvs.bitset_etag # NoKey THEN nvs.bitset_etag ELSE "")

HashCacheLoaded ==
    fs.allow_deny.exists => fs.allow_deny = AllowDenyFile(allowHashes_, denyHashes_)

BitsetLoaded ==
    fs.bits.exists => \A i \in 1..Len(fs.bits.data) : ByteOf(authorized_bits, i - 1) = fs.bits.data[i]

\* C32: when begin() reaches its syncFromServer(), i.e. before the first HTTP
\* request of the boot, the persisted version tag, the hash-cache snapshot and
\* the bitset snapshot are in memory
C32_LoadedBeforeFirstRequest ==
    phase = "begin" => TagLoaded /\ HashCacheLoaded /\ BitsetLoaded

\* the payload of a sync answer names no fingerprint: it has no allow/deny
\* array at all, or every array it has is empty
NamesNoFingerprint(b) ==
    /\ b.hasAllow => b.allow = <<>>
    /\ b.hasAllowUids => b.allow_uids = <<>>
    /\ b.hasDeny => b.deny = <<>>
    /\ b.hasDenyUids => b.deny_uids = <<>>

FullSyncDone(call) ==
    call.op = "syncFromServer" /\ call.ret /\ call.sync.code = 200

\* C33: a successful full sync whose payload has no allow/deny arrays, or only
\* empty ones, leaves the allow list and the deny list as they were
C33_EmptyPayloadKeepsCache ==
    [][FullSyncDone(last') /\ NamesNoFingerprint(last'.sync.body)
        => allowHashes_' = allowHashes_ /\ denyHashes_' = denyHashes_]_vars

\* a full sync with present but empty arrays has run on a non-empty cache
C33_Witness ==
    /\ FullSyncDone(last) /\ last.sync.body.hasAllow /\ last.sync.body.hasDeny
    /\ NamesNoFingerprint(last.sync.body)
    /\ allowHashes_ # <<>>
    /\ denyHashes_ # <<>>

\* The normalized form, stated directly: the bytes from the first to the last
\* byte that is not white space, each lower-case letter replaced by its capital
NormalForm(s) ==
    LET keep == {i \in 1..Len(s) : ~IsSpace(s[i])}
        lo == CHOOSE i \in keep : \A j \in keep : i <= j
        hi == CHOOSE i \in keep : \A j \in keep : j <= i
    IN  IF keep = {} THEN <<>>
        ELSE [i \in 1..(hi - lo + 1) |->
                 IF s[lo + i - 1] \in 97..122 THEN s[lo + i - 1] - 32 ELSE s[lo + i - 1]]

\* The FNV-1a fold on eight bytes, least significant first, as a reference for
\* the limb arithmetic of fnv1a64_bytes.
\* 0xcbf29ce484222325
RefOffset == <<37, 35, 34, 132, 228, 156, 242, 203>>

\* 0x00000100000001b3
RefPrime == <<179, 1, 0, 0, 0, 1, 0, 0>>

RefXor(a, b) ==
    LET Bit(x, k) == (x \div (2 ^ k)) % 2
        D(k) == IF Bit(a, k) # Bit(b, k) THEN 2 ^ k ELSE 0
    IN  D(0) + D(1) + D(2) + D(3) + D(4) + D(5) + D(6) + D(7)

RECURSIVE RefColumn(_, _, _)
\* sum of h[j] * RefPrime[k] over j + k = i + 1, j from 1 to n
RefColumn(h, i, n) ==
    IF n = 0 THEN 0 ELSE h[n] * RefPrime[i + 1 - n] + RefColumn(h, i, n - 1)

RECURSIVE RefMul(_, _, _)
\* bytes i..8 of h * RefPrime modulo 2^64, carry coming in
RefMul(h, i, carry) ==
    IF i > 8 THEN <<>>
    ELSE <<(RefColumn(h, i, i) + carry) % 256>>
         \o RefMul(h, i + 1, (RefColumn(h, i, i) + carry) \div 256)

RECURSIVE RefFold(_, _)
RefFold(data, h) ==
    IF data = <<>> THEN h
    ELSE RefFold(Tail(data), RefMul(<<RefXor(h[1], Head(data))>> \o Tail(h), 1, 0))

\* the eight bytes as four 16-bit limbs
RefLimbs(h) == [k \in 1..4 |-> h[2 * k - 1] + 256 * h[2 * k]]

\* C34: hashUid is a function of the trimmed, upper-cased input: strings with
\* the same normalized form hash alike, normalizing twice equals normalizing
\* once, and the value is the FNV-1a fold (start 0xcbf29ce484222325, hash =
\* (hash XOR byte) * 0x100000001b3 modulo 2^64) over the normalized bytes,
\* also for the empty string
C34_HashOfNormalForm ==
    last.op = "hashUid" =>
        /\ NormalForm(last.s) = NormalForm(last.t) => last.hs = last.ht
        /\ ToUpperCase(Trim(ToUpperCase(Trim(last.s)))) = ToUpperCase(Trim(last.s))
        /\ NormalForm(NormalForm(last.s)) = NormalForm(last.s)
        /\ last.hs = RefLimbs(RefFold(NormalForm(last.s), RefOffset))

\* " ab " and "AB" have been hashed, to the same value
C34_Witness ==
    /\ last.op = "hashUid"
    /\ last.s = UID_ab
    /\ last.t = UID_AB
    /\ last.hs = last.ht
    /\ last.hs # FNV_OFFSET

\* C35: both hash lists are sorted ascending and free of duplicates in every
\* reachable state, boot-time loads of any snapshot file that
\* loadAllowDenyFromFS accepts included
C35_ListsStrictlySorted ==
    IsStrictlySorted(allowHashes_) /\ IsStrictlySorted(denyHashes_)

\* C36: when addKnownAuth returns and no file-system write has failed,
\* /allow_deny.bin holds exactly the in-memory allow and deny lists, whether
\* or not the key-value store was opened
C36_LearnedIsPersisted ==
    last.op = "addKnownAuth" /\ last.fault = "none"
        => fs.allow_deny = AllowDenyFile(allowHashes_, denyHashes_)

\* C37: after every run of the server-check timer callback AuthSync's
\* server_last_ok equals main's serverReachable, which is the result of that
\* probe, whatever updateEnrollStatus or AuthSync's own probe did to either
\* flag before
C37_SharedReachability ==
    last.op = "serverCheckTimerCallback" => server_last_ok = last.main.serverReachable

\* the NetworkTask is about to call update(): main.cpp:573
UpdateCalled == last.main.serverReachable /\ last.main.authSyncRequested

SyncInterval == Elapsed(last_sync) > SYNC_INTERVAL

\* the step sent a request of syncFromServer: its probe or GET /api/sync
SyncAttempted(step) == "status" \in Range(step.reqs) \/ "sync" \in Range(step.reqs)

\* update() sends requests only when called more than SYNC_INTERVAL after last_sync
C38_RateLimited ==
    [][last'.op = "NetworkTask" /\ SyncAttempted(last')
        => UpdateCalled /\ SyncInterval]_vars

\* last_sync is set only by a sync that succeeded (the clock of the model
\* moves the stamp itself only in a tick)
C38_AdvancesOnSuccess ==
    [][last'.op # "tick" /\ last_sync' # last_sync
        => "sync" \in Range(last'.reqs) /\ last'.ret /\ last_sync' = now]_vars

\* C38: sync rate limit.  update() issues a sync request only when more than
\* SYNC_INTERVAL has passed since last_sync; last_sync advances only on a
\* successful sync; and an update() that is due and outside the backoff window
\* does attempt the sync, so that a failed sync is retried
C38_RetriedOutsideBackoff ==
    [][last'.op = "NetworkTask"
        => /\ SyncAttempted(last') => UpdateCalled /\ SyncInterval
           /\ last_sync' # last_sync => "sync" \in Range(last'.reqs) /\ last'.ret
           /\ UpdateCalled /\ SyncInterval /\ Online /\ ~BackoffActive
                => SyncAttempted(last')]_vars

\* C39: a sync request is not lost.  authSyncRequested goes from set to clear
\* only in a pass of the NetworkTask that finds serverReachable and the flag
\* set and goes on to call update(), never at the end of an update(); and
\* once the flag is set and serverReachable is true, such a pass follows.
C39_SyncRequestNotLost ==
    /\ [][last.main.authSyncRequested /\ ~last'.main.authSyncRequested
            => /\ last'.op \in {"netBegin", "NetworkTask"}
               /\ ~last.main.inNet
               /\ last.main.serverReachable]_vars
    /\ (last.main.authSyncRequested /\ last.main.serverReachable)
            ~> (~last.main.authSyncRequested \/ ~last.main.serverReachable)

\* the timer has set the flag while update() waits for GET /api/sync
C39_Witness ==
    /\ last.op = "authSyncTimerCallback"
    /\ last.main.inNet
    /\ last.main.authSyncRequested
    /\ last.main.serverReachable

\* C40: every item the NetworkTask takes from the scan queue leads to a
\* POST /api/last_scan, whatever loop() and the timer task do to
\* serverReachable while the drain loop runs
C40_DequeuedIsPosted ==
    [][last'.op = "drainItem" /\ Len(last'.main.scanQueue) < Len(last.main.scanQueue)
        => "last_scan" \in Range(last'.reqs)]_vars

====
